---------------------------- MODULE Spec2Model ----------------------------
(***************************************************************************)
(* Reconciliation engine of aitop: the SessionStore, the Coordinator's     *)
(* hook / log / scan handling and the store's liveness loop.               *)
(*                                                                         *)
(* Numbers.  A pid is compared by the program with 0, with 1000000         *)
(* (Coordinator.scanProcesses, updateWorkingDirs) and with 2147483647      *)
(* (validatePID), and is otherwise only a Map key.  A placeholder pid is   *)
(* a Date.now() reading, about 1.7e12, far above 2147483647 and above the  *)
(* integers of the model checker.  The model keeps the order of these      *)
(* values: real OS pids are 1..MaxPid, below PlaceholderFloor; readings of *)
(* the clock start at ClockEpoch, and every value from ClockEpoch on       *)
(* stands for a number above 2147483647.                                   *)
(*                                                                         *)
(* Records carry pid, sessionId, displayName, status, cpuUsage,            *)
(* memoryUsage, startTime, lastActiveTime, firstSeenAt and workingDir; a   *)
(* time is a reading of the clock.  The runningTime field is written but   *)
(* never read by the operations modelled here.                             *)
(***************************************************************************)
EXTENDS Integers, Sequences, FiniteSets, TLC

\* Bounds of the model.
MaxPid == 2
MaxTick == 1
MaxInputs == 3
MaxFairInputs == 2
MaxCalls == 4
MaxRaceInputs == 2
MaxWait == 3
MaxDirInputs == 5
MaxTailInputs == 4
MaxReads == 2
MaxLoopInputs == 2
MaxPosts == 3
MaxSampleInputs == 3

\* Program constants.
PlaceholderFloor == 1000000
NoPid == 0
CACHE_TTL == 30000

RealPids == 1..MaxPid
ClockEpoch == PlaceholderFloor + 1
ClockValues == ClockEpoch..(ClockEpoch + MaxTick)
Sessions == {"abc", "xyz"}

IDLE == "idle"
RUNNING == "running"
SESSION_START == "session_start"
REQUEST_START == "request_start"
REQUEST_STOP == "request_stop"
HookEventType == {SESSION_START, REQUEST_START, REQUEST_STOP}

\* a workingDir that is undefined, null or empty
NoDir == ""
Dirs == {"/a", "/b"}

VARIABLES
  processes,    \* SessionStore.processes, in Map insertion order
  watchers,     \* LogWatcher.watchers: the sessionIds with a watcher
  retry,        \* sessionIds with a pending 2 s attach retry timer
  alive,        \* OS: pids of the live processes the scan matches
  now,          \* OS: Date.now()
  scanResult,   \* result of the process-table query in flight
  scanPc,       \* "idle" | "querying"
  liveTodo,     \* liveness pass: snapshot pids not yet probed
  liveDead,     \* liveness pass: pids found dead so far
  livePc,       \* "idle" | "probing"
  lastSignal,   \* history: per session, the last signal applied
  lastRemoved,  \* history: the records the last step removed, and the loop
  inputs,       \* history: number of inputs and loop passes started so far
  emitted,      \* history: the store's notifications of the last step
  lastCall,     \* history: the last call of a store or resolver operation
  buried,       \* history: the pids whose record was removed at some time
  overlap,      \* a liveness pass started while another one is probing
  cache,        \* WorkingDirResolver.cache: pid -> [dir, timestamp]
  resolving,    \* WorkingDirResolver.resolving
  lookups,      \* getWorkingDir calls waiting for resolveWorkingDir
  cycle,        \* updateWorkingDirs: the refresh cycle, the results of
                \* getWorkingDirs, the pids it waits for and what their
                \* getWorkingDir calls returned
  disk,         \* OS: the lines of each regular file
  tails,        \* LogWatcher.watchers: sessionId -> [path, lastPosition],
                \* with the startPosition of watchLogFile as history
  reads,        \* processNewLines calls waiting for their stream
  logged,       \* history: the 'log' events LogWatcher emitted in the last step
  timers,       \* Coordinator: how far start() has run, the pending scanTimer
                \* and dirUpdateTimer, the store's pidCheckInterval, and
                \* whether stop() has been called
  sockets       \* index.ts: the WebSocket connections made so far, the open
                \* ones, and the Coordinator's listeners per event name

storeHistory == <<emitted, lastCall, buried>>

resolverVars == <<cache, resolving, lookups, cycle>>

tailVars == <<disk, tails, reads, logged>>

lifeVars == <<timers, sockets>>

vars == <<processes, watchers, retry, alive, now, scanResult, scanPc,
          liveTodo, liveDead, livePc, lastSignal, lastRemoved, inputs,
          emitted, lastCall, buried, overlap, cache, resolving, lookups,
          cycle, disk, tails, reads, logged,
          timers, sockets>>

-----------------------------------------------------------------------------
\* SessionStore

SynId(pid) == "pid-" \o ToString(pid)

IsSynthetic(sessionId) ==
  Len(sessionId) >= 4 /\ SubSeq(sessionId, 1, 4) = "pid-"

Pids(procs) == {procs[i].pid : i \in 1..Len(procs)}

\* Map.get(pid): the index of the record, 0 for undefined
GetProcess(procs, pid) ==
  IF \E i \in 1..Len(procs) : procs[i].pid = pid
    THEN CHOOSE i \in 1..Len(procs) : procs[i].pid = pid
    ELSE 0

\* first record in insertion order with the sessionId, 0 for undefined
GetProcessBySessionId(procs, sessionId) ==
  IF \E i \in 1..Len(procs) : procs[i].sessionId = sessionId
    THEN CHOOSE i \in 1..Len(procs) :
           /\ procs[i].sessionId = sessionId
           /\ \A j \in 1..(i - 1) : procs[j].sessionId # sessionId
    ELSE 0

Usages == {0, 5}

MergeSummingUsage(base, updates) ==
  [f \in DOMAIN base |->
     IF f \notin DOMAIN updates THEN base[f]
     ELSE IF f = "cpuUsage" THEN base[f] + updates[f]
     ELSE updates[f]]

\* { ...base, ...updates }
Merge(base, updates) ==
  [f \in DOMAIN base |-> IF f \in DOMAIN updates THEN updates[f] ELSE base[f]]

NoUpdates == [f \in {} |-> IDLE]

\* a record without displayName
NoName == ""

\* sessionId.substring(0, 8)
Substring8(sessionId) ==
  IF Len(sessionId) > 8 THEN SubSeq(sessionId, 1, 8) ELSE sessionId

\* `Session ${sessionId.substring(0, 8)}`
DisplayName(sessionId) == "Session " \o Substring8(sessionId)

\* a record that has no displayName is given one
EnsureDisplayName(pid, process) ==
  IF process.displayName # NoName THEN process
  ELSE [process EXCEPT !.displayName =
          IF process.sessionId # "" THEN DisplayName(process.sessionId)
          ELSE "PID " \o ToString(pid)]

NewProcessRunning(pid, updates) ==
  EnsureDisplayName(pid,
    Merge([pid |-> pid,
           sessionId |-> SynId(pid),
           displayName |-> NoName,
           status |-> RUNNING,
           cpuUsage |-> 0,
           memoryUsage |-> 0,
           startTime |-> now,
           lastActiveTime |-> now,
           firstSeenAt |-> now,
           workingDir |-> NoDir], updates))

\* the record upsertProcess makes for a pid that has none
NewProcess(pid, updates) ==
  EnsureDisplayName(pid,
    Merge([pid |-> pid,
           sessionId |-> SynId(pid),
           displayName |-> NoName,
           status |-> IDLE,
           cpuUsage |-> 0,
           memoryUsage |-> 0,
           startTime |-> now,
           lastActiveTime |-> now,
           firstSeenAt |-> now,
           workingDir |-> NoDir], updates))

MergedAsNew(pid, existing, updates) == NewProcess(pid, updates)

\* the record upsertProcess makes of the record a pid has
MergedProcess(pid, existing, updates) ==
  EnsureDisplayName(pid,
    [Merge(existing, updates) EXCEPT !.lastActiveTime = now])

UpsertAlwaysAppends(procs, pid, updates) ==
  Append(procs, NewProcess(pid, updates))

UpsertFromLastRemoved(procs, pid, updates) ==
  LET i == GetProcess(procs, pid)
      last == {k \in 1..Len(emitted) : /\ emitted[k].type = "process:removed"
                                        /\ emitted[k].pid = pid}
  IN IF i # 0
       THEN [procs EXCEPT ![i] = MergedProcess(pid, procs[i], updates)]
     ELSE IF last # {}
       THEN Append(procs, Merge(NewProcess(pid,
              [sessionId |-> emitted[CHOOSE k \in last : TRUE].sessionId]),
              updates))
     ELSE Append(procs, NewProcess(pid, updates))

UpsertProcess(procs, pid, updates) ==
  LET i == GetProcess(procs, pid)
  IN IF i # 0
       THEN [procs EXCEPT ![i] = MergedProcess(pid, procs[i], updates)]
       ELSE Append(procs, NewProcess(pid, updates))

UpdateStatusBySessionId(procs, sessionId, status) ==
  LET i == GetProcessBySessionId(procs, sessionId)
  IN IF i # 0 /\ procs[i].status # status
       THEN [procs EXCEPT ![i].status = status, ![i].lastActiveTime = now]
       ELSE procs

AssociateSession(procs, pid, sessionId) ==
  LET i == GetProcess(procs, pid)
  IN IF i # 0
       THEN [procs EXCEPT ![i].sessionId = sessionId,
                          ![i].displayName = DisplayName(sessionId)]
       ELSE UpsertProcess(procs, pid,
                          [sessionId |-> sessionId,
                           displayName |-> DisplayName(sessionId)])

\* writes the metrics given to the record of a stored pid; a pid not stored
\* is left out
UpdateMetricsAndStatus(procs, pid, metrics) ==
  UpsertProcess(procs, pid,
                [cpuUsage |-> metrics.cpuUsage,
                 memoryUsage |-> metrics.memoryUsage, status |-> IDLE])

UpdateMetrics(procs, pid, metrics) ==
  LET i == GetProcess(procs, pid)
  IN IF i # 0 THEN [procs EXCEPT ![i] = Merge(procs[i], metrics)] ELSE procs

UpdateProcessOrCreate(procs, pid, updates) ==
  UpsertProcess(procs, pid, updates)

\* Object.assign on the record of a stored pid
UpdateProcess(procs, pid, updates) ==
  LET i == GetProcess(procs, pid)
  IN IF i # 0 THEN [procs EXCEPT ![i] = Merge(procs[i], updates)] ELSE procs

RemoveProcess(procs, pid) ==
  LET i == GetProcess(procs, pid)
  IN IF i = 0 THEN procs
     ELSE SubSeq(procs, 1, i - 1) \o SubSeq(procs, i + 1, Len(procs))

\* clear()
Clear(procs) == <<>>

\* The notifications a call emits, in the order of emission

ProcessUpdated(process) == [type |-> "process:updated", process |-> process]

ProcessRemoved(process) ==
  [type |-> "process:removed", pid |-> process.pid,
   sessionId |-> process.sessionId]

MetricsUpdated(pid, metrics) ==
  [type |-> "metrics:updated", pid |-> pid, metrics |-> metrics]

\* the payload is getAllProcesses() at the moment of emission
StateChanged(procs) == [type |-> "state:changed", processes |-> procs]

UpsertEmitted(procs, pid, updates) ==
  LET after == UpsertProcess(procs, pid, updates)
  IN <<ProcessUpdated(after[GetProcess(after, pid)]), StateChanged(after)>>

UpdateStatusEmittedTwice(procs, sessionId, status) ==
  LET i == GetProcessBySessionId(procs, sessionId)
      after == UpdateStatusBySessionId(procs, sessionId, status)
  IN IF i # 0
       THEN <<StateChanged(after), ProcessUpdated(after[i]), StateChanged(after)>>
       ELSE <<>>

UpdateStatusEmitted(procs, sessionId, status) ==
  LET i == GetProcessBySessionId(procs, sessionId)
      after == UpdateStatusBySessionId(procs, sessionId, status)
  IN IF i # 0 /\ procs[i].status # status
       THEN <<ProcessUpdated(after[i]), StateChanged(after)>>
       ELSE <<>>

AssociateEmitted(procs, pid, sessionId) ==
  LET i == GetProcess(procs, pid)
      after == AssociateSession(procs, pid, sessionId)
  IN IF i # 0
       THEN <<ProcessUpdated(after[i]), StateChanged(after)>>
       ELSE UpsertEmitted(procs, pid, [sessionId |-> sessionId])

UpdateMetricsEmitted(procs, pid, metrics) ==
  LET i == GetProcess(procs, pid)
      after == UpdateMetrics(procs, pid, metrics)
  IN IF i # 0 /\ after # procs
       THEN <<MetricsUpdated(pid, metrics), StateChanged(after)>>
       ELSE <<>>

UpdateProcessEmitted(procs, pid, updates) ==
  LET i == GetProcess(procs, pid)
      after == UpdateProcess(procs, pid, updates)
  IN IF i # 0
       THEN <<ProcessUpdated(after[i]), StateChanged(after)>>
       ELSE <<>>

ClearEmitted(procs) == <<StateChanged(<<>>)>>

RemoveEmittedStale(procs, pid) ==
  LET i == GetProcess(procs, pid)
  IN IF i = 0 THEN <<>>
     ELSE <<ProcessRemoved(procs[i]), StateChanged(procs)>>

RemoveEmittedAlways(procs, pid) ==
  <<[type |-> "process:removed", pid |-> pid, sessionId |-> SynId(pid)],
    StateChanged(RemoveProcess(procs, pid))>>

RemoveEmitted(procs, pid) ==
  LET i == GetProcess(procs, pid)
  IN IF i = 0 THEN <<>>
     ELSE <<ProcessRemoved(procs[i]), StateChanged(RemoveProcess(procs, pid))>>

-----------------------------------------------------------------------------
\* LogWatcher, as far as the Coordinator's state depends on it.  The state
\* handed around is [processes, watchers].

\* what an attach finds at the log path
LogFiles == {"unsafe", "quiet", "interrupted"}
\* what a hook says about its transcript: no transcriptPath, no log file
\* found, or a log file
LogInputs == {"none", "missing"} \cup LogFiles

HandleLogEventIgnored(procs, sessionId) == procs

HandleLogEvent(procs, sessionId) ==
  UpdateStatusBySessionId(procs, sessionId, IDLE)

\* watchLogFile followed by processExistingContent, which runs to its end
\* before watchLogFile returns: an interrupt entry in the last lines of the
\* file is emitted, and handled by the Coordinator, at once
WatchLogFile(st, sessionId, file) ==
  IF sessionId \in st.watchers \/ file = "unsafe"
    THEN st
    ELSE [processes |-> IF file = "interrupted"
                          THEN HandleLogEvent(st.processes, sessionId)
                          ELSE st.processes,
          watchers |-> st.watchers \cup {sessionId}]

KeepTracked(st, pid) == st

\* store.removeProcess and the Coordinator's 'process:removed' listener
RemoveTracked(st, pid) ==
  LET i == GetProcess(st.processes, pid)
  IN IF i = 0 THEN st
     ELSE [processes |-> RemoveProcess(st.processes, pid),
           watchers |-> st.watchers \ {st.processes[i].sessionId}]

-----------------------------------------------------------------------------
\* Coordinator.handleHookEvent

StatusForRunningOnStop(type) ==
  IF type = SESSION_START THEN IDLE ELSE RUNNING

StatusFor(type) ==
  CASE type = SESSION_START -> IDLE
    [] type = REQUEST_START -> RUNNING
    [] type = REQUEST_STOP -> IDLE
    [] OTHER -> IDLE

LastSynthetic(procs) ==
  IF \E i \in 1..Len(procs) : IsSynthetic(procs[i].sessionId)
    THEN CHOOSE i \in 1..Len(procs) :
           /\ IsSynthetic(procs[i].sessionId)
           /\ \A j \in (i + 1)..Len(procs) : ~IsSynthetic(procs[j].sessionId)
    ELSE 0

\* first record, in insertion order, still under a generated sessionId
FirstSynthetic(procs) ==
  IF \E i \in 1..Len(procs) : IsSynthetic(procs[i].sessionId)
    THEN CHOOSE i \in 1..Len(procs) :
           /\ IsSynthetic(procs[i].sessionId)
           /\ \A j \in 1..(i - 1) : ~IsSynthetic(procs[j].sessionId)
    ELSE 0

\* the pid the hook is applied to (lines 77-97)
HookPid(procs, event, clock) ==
  LET process == GetProcessBySessionId(procs, event.sessionId)
      known == IF event.pid # NoPid THEN event.pid
               ELSE IF process # 0 THEN procs[process].pid
               ELSE NoPid
      syn == FirstSynthetic(procs)
      found == IF known # NoPid THEN known
               ELSE IF syn # 0 THEN procs[syn].pid
               ELSE NoPid
  IN IF found # NoPid THEN found ELSE clock

\* startWatchingLogs, up to the point where it arms the retry timer
StartWatchingLogs(st, sessionId, log) ==
  IF log \in LogFiles THEN WatchLogFile(st, sessionId, log) ELSE st

HandleHookEvent(st, event, clock) ==
  LET pid == HookPid(st.processes, event, clock)
      upserted == UpsertProcess(st.processes, pid,
                    [sessionId |-> event.sessionId,
                     status |-> StatusFor(event.type),
                     displayName |-> DisplayName(event.sessionId)])
      associated == IF event.pid # NoPid /\ event.pid # pid
                      THEN AssociateSession(upserted, event.pid, event.sessionId)
                      ELSE upserted
      st1 == [processes |-> associated, watchers |-> st.watchers]
  IN IF event.log # "none"
       THEN StartWatchingLogs(st1, event.sessionId, event.log)
       ELSE st1

-----------------------------------------------------------------------------
\* Coordinator.scanProcesses

\* the orders in which the process table may list the pids of a set
Listings(S) ==
  {f \in [1..Cardinality(S) -> S] : \A i, j \in 1..Cardinality(S) :
                                       f[i] = f[j] => i = j}

\* the usage figures of a line of the process table
ScanMetrics == [cpuUsage |-> 0, memoryUsage |-> 0]

\* what a line of the process table gives for a pid not tracked yet: the
\* usage figures and the time the process started, here the epoch
ProcessInfo ==
  [cpuUsage |-> 0, memoryUsage |-> 0,
   startTime |-> ClockEpoch, firstSeenAt |-> ClockEpoch]

RECURSIVE ScanUpserts(_, _)
ScanUpserts(procs, lines) ==
  IF lines = <<>> THEN procs
  ELSE ScanUpserts(IF GetProcess(procs, Head(lines)) # 0
                     THEN UpdateMetrics(procs, Head(lines), ScanMetrics)
                     ELSE UpsertProcess(procs, Head(lines), ProcessInfo),
                   Tail(lines))

GoneIgnoringFloor(pid, currentPids) == pid \notin currentPids

\* line 240: the tracked pid is taken for gone
Gone(pid, currentPids) ==
  pid \notin currentPids /\ pid < PlaceholderFloor

RECURSIVE ScanRemovals(_, _, _)
ScanRemovals(st, tracked, currentPids) ==
  IF tracked = <<>> THEN st
  ELSE ScanRemovals(IF Gone(Head(tracked).pid, currentPids)
                      THEN RemoveTracked(st, Head(tracked).pid)
                      ELSE st,
                    Tail(tracked), currentPids)

ApplyScan(st, lines) ==
  LET upserted == ScanUpserts(st.processes, lines)
      currentPids == {lines[i] : i \in 1..Len(lines)}
  IN ScanRemovals([processes |-> upserted, watchers |-> st.watchers],
                  upserted, currentPids)

\* the notifications of a scan cycle, in the order of emission
RECURSIVE ScanUpsertsEmitted(_, _)
ScanUpsertsEmitted(procs, lines) ==
  IF lines = <<>> THEN <<>>
  ELSE LET pid == Head(lines)
           tracked == GetProcess(procs, pid) # 0
       IN (IF tracked THEN UpdateMetricsEmitted(procs, pid, ScanMetrics)
                      ELSE UpsertEmitted(procs, pid, ProcessInfo))
            \o ScanUpsertsEmitted(
                 IF tracked THEN UpdateMetrics(procs, pid, ScanMetrics)
                            ELSE UpsertProcess(procs, pid, ProcessInfo),
                 Tail(lines))

RECURSIVE ScanRemovalsEmitted(_, _, _)
ScanRemovalsEmitted(st, tracked, currentPids) ==
  IF tracked = <<>> THEN <<>>
  ELSE LET gone == Gone(Head(tracked).pid, currentPids)
       IN (IF gone THEN RemoveEmitted(st.processes, Head(tracked).pid)
                   ELSE <<>>)
            \o ScanRemovalsEmitted(
                 IF gone THEN RemoveTracked(st, Head(tracked).pid) ELSE st,
                 Tail(tracked), currentPids)

ApplyScanEmitted(st, lines) ==
  LET upserted == ScanUpserts(st.processes, lines)
      currentPids == {lines[i] : i \in 1..Len(lines)}
  IN ScanUpsertsEmitted(st.processes, lines)
       \o ScanRemovalsEmitted([processes |-> upserted, watchers |-> st.watchers],
                              upserted, currentPids)

-----------------------------------------------------------------------------
\* SessionStore.checkDeadProcesses

\* validatePID; every value from ClockEpoch on stands for one above 2147483647
ValidPID(pid) == pid > 0 /\ pid < ClockEpoch

\* the pass runs on, without suspending, over the pids validatePID rejects;
\* it suspends at the first pid it has to probe
RECURSIVE SkipInvalid(_, _)
SkipInvalid(todo, dead) ==
  IF todo = <<>> \/ ValidPID(Head(todo))
    THEN [todo |-> todo, dead |-> dead]
    ELSE SkipInvalid(Tail(todo), Append(dead, Head(todo)))

RECURSIVE RemoveDead(_, _)
RemoveDead(st, deadPids) ==
  IF deadPids = <<>> THEN st
  ELSE RemoveDead(RemoveTracked(st, Head(deadPids)), Tail(deadPids))

RECURSIVE EveryDeadEmitted(_, _)
EveryDeadEmitted(st, deadPids) ==
  IF deadPids = <<>> THEN <<>>
  ELSE <<[type |-> "process:removed", pid |-> Head(deadPids),
          sessionId |-> SynId(Head(deadPids))]>>
         \o EveryDeadEmitted(RemoveTracked(st, Head(deadPids)), Tail(deadPids))

\* the notifications of the removal loop that ends a pass
RECURSIVE RemoveDeadEmitted(_, _)
RemoveDeadEmitted(st, deadPids) ==
  IF deadPids = <<>> THEN <<>>
  ELSE RemoveEmitted(st.processes, Head(deadPids))
         \o RemoveDeadEmitted(RemoveTracked(st, Head(deadPids)), Tail(deadPids))

-----------------------------------------------------------------------------
\* WorkingDirResolver.  The state handed around is [cache, resolving,
\* lookups]; a lookup is a getWorkingDir call suspended at its await, with the
\* cache entry it read when it was called.

\* resolveWorkingDir rejects
Throws == "throws"

\* what resolveWorkingDir settles with: a directory, null on failure or on
\* the 2 s timeout, or a rejection
LookupResults == Dirs \cup {NoDir, Throws}

\* Date.now() - cached.timestamp < CACHE_TTL
IsFresh(r, pid, clock) ==
  pid \in DOMAIN r.cache /\ clock - r.cache[pid].timestamp < CACHE_TTL

\* cached?.dir || null
CachedDir(r, pid) ==
  IF pid \in DOMAIN r.cache THEN r.cache[pid].dir ELSE NoDir

StartLookup(r, pid, batch) ==
  [r EXCEPT !.resolving = @ \cup {pid},
            !.lookups = Append(@, [pid |-> pid, cached |-> CachedDir(r, pid),
                                   batch |-> batch])]

GetWorkingDirUnguarded(r, pid, clock, batch) ==
  IF IsFresh(r, pid, clock)
    THEN [resolver |-> r, how |-> "fresh", dir |-> r.cache[pid].dir]
    ELSE [resolver |-> StartLookup(r, pid, batch), how |-> "started",
          dir |-> NoDir]

\* getWorkingDir up to its return or its await
GetWorkingDir(r, pid, clock, batch) ==
  IF IsFresh(r, pid, clock)
    THEN [resolver |-> r, how |-> "fresh", dir |-> r.cache[pid].dir]
  ELSE IF pid \in r.resolving
    THEN [resolver |-> r, how |-> "inflight", dir |-> CachedDir(r, pid)]
  ELSE [resolver |-> StartLookup(r, pid, batch), how |-> "started",
        dir |-> NoDir]

\* cache.set(pid, entry)
SetCache(c, pid, entry) ==
  [p \in DOMAIN c \cup {pid} |-> IF p = pid THEN entry ELSE c[p]]

\* the same without the finally clause
SettleKeepsMark(r, k, result, clock) ==
  LET lookup == r.lookups[k]
  IN [resolver |->
        [cache |-> IF result = Throws THEN r.cache
                   ELSE SetCache(r.cache, lookup.pid,
                                 [dir |-> result, timestamp |-> clock]),
         resolving |-> r.resolving,
         lookups |-> SubSeq(r.lookups, 1, k - 1)
                       \o SubSeq(r.lookups, k + 1, Len(r.lookups))],
      how |-> IF result = Throws THEN "threw"
              ELSE IF result = NoDir THEN "failed" ELSE "resolved",
      dir |-> IF result = Throws THEN lookup.cached ELSE result]

\* getWorkingDir from its await on: lookup k settles with `result`
Settle(r, k, result, clock) ==
  LET lookup == r.lookups[k]
  IN [resolver |->
        [cache |-> IF result = Throws THEN r.cache
                   ELSE SetCache(r.cache, lookup.pid,
                                 [dir |-> result, timestamp |-> clock]),
         resolving |-> r.resolving \ {lookup.pid},
         lookups |-> SubSeq(r.lookups, 1, k - 1)
                       \o SubSeq(r.lookups, k + 1, Len(r.lookups))],
      how |-> IF result = Throws THEN "threw"
              ELSE IF result = NoDir THEN "failed" ELSE "resolved",
      dir |-> IF result = Throws THEN lookup.cached ELSE result]

CleanupFromTwiceTtl(c, clock) ==
  [p \in {q \in DOMAIN c : clock - c[q].timestamp < CACHE_TTL * 2} |-> c[p]]

CleanupCache(c, clock) ==
  [p \in {q \in DOMAIN c : ~(clock - c[q].timestamp > CACHE_TTL * 2)} |-> c[p]]

\* getWorkingDirs, first loop: the pids answered from the cache
RECURSIVE Answered(_, _, _)
Answered(r, pids, clock) ==
  IF pids = <<>> THEN <<>>
  ELSE LET pid == Head(pids)
       IN (IF IsFresh(r, pid, clock)
             THEN <<[pid |-> pid, dir |-> r.cache[pid].dir]>>
           ELSE IF pid \in r.resolving
             THEN <<[pid |-> pid, dir |-> CachedDir(r, pid)]>>
           ELSE <<>>)
            \o Answered(r, Tail(pids), clock)

\* getWorkingDirs, first loop: the pids to resolve
RECURSIVE ToResolve(_, _, _)
ToResolve(r, pids, clock) ==
  IF pids = <<>> THEN <<>>
  ELSE LET pid == Head(pids)
       IN (IF ~IsFresh(r, pid, clock) /\ pid \notin r.resolving
             THEN <<pid>> ELSE <<>>)
            \o ToResolve(r, Tail(pids), clock)

\* toResolve.map(pid => this.getWorkingDir(pid)), each call up to its await
RECURSIVE StartAll(_, _, _, _)
StartAll(r, values, pids, clock) ==
  IF pids = <<>> THEN [resolver |-> r, values |-> values]
  ELSE LET got == GetWorkingDir(r, Head(pids), clock, TRUE)
       IN StartAll(got.resolver,
                   IF got.how = "started" THEN values
                   ELSE SetCache(values, Head(pids), got.dir),
                   Tail(pids), clock)

\* the entries of the Map getWorkingDirs returns, in insertion order
Entries(answered, toResolve, values) ==
  answered \o [i \in 1..Len(toResolve) |->
                 [pid |-> toResolve[i], dir |-> values[toResolve[i]]]]

MergeEveryDir(procs, entries) ==
  [i \in 1..Len(procs) |->
     IF \E k \in 1..Len(entries) : entries[k].pid = procs[i].pid
       THEN [procs[i] EXCEPT !.workingDir =
               entries[CHOOSE k \in 1..Len(entries) :
                         entries[k].pid = procs[i].pid].dir]
       ELSE procs[i]]

\* updateWorkingDirs, the loop over the entries: if (dir) updateProcess
RECURSIVE MergeDirs(_, _)
MergeDirs(procs, entries) ==
  IF entries = <<>> THEN procs
  ELSE MergeDirs(IF Head(entries).dir # NoDir
                   THEN UpdateProcess(procs, Head(entries).pid,
                                      [workingDir |-> Head(entries).dir])
                   ELSE procs,
                 Tail(entries))

RECURSIVE MergeDirsEmitted(_, _)
MergeDirsEmitted(procs, entries) ==
  IF entries = <<>> THEN <<>>
  ELSE LET merge == Head(entries).dir # NoDir
           updates == [workingDir |-> Head(entries).dir]
       IN (IF merge
             THEN UpdateProcessEmitted(procs, Head(entries).pid, updates)
             ELSE <<>>)
            \o MergeDirsEmitted(
                 IF merge THEN UpdateProcess(procs, Head(entries).pid, updates)
                          ELSE procs,
                 Tail(entries))

-----------------------------------------------------------------------------
\* pathSecurity.  A path is the sequence of the pieces of its string, the
\* separators among them, and startsWith compares two strings piece by piece.

SafeDir == <<"/", "home", "/", ".claude">>
NoPath == <<>>
Inside == SafeDir \o <<"/", "projects", "/", "abc.jsonl">>
Sibling == SafeDir \o <<"-backup", "/", "abc.jsonl">>
Outside == <<"/", "tmp", "/", "abc.jsonl">>
Link == SafeDir \o <<"/", "link.jsonl">>
Folder == SafeDir \o <<"/", "projects">>
Absent == SafeDir \o <<"/", "gone.jsonl">>

LogPaths == {NoPath, Inside, Sibling, Outside, Link, Folder, Absent}
RegularFiles == {Inside, Sibling, Outside}

\* fs.realpathSync: Link is a symbolic link to Outside
RealPath(path) == IF path = Link THEN Outside ELSE path

\* what fs.statSync finds at a real path
FileType(path) ==
  IF path \in RegularFiles THEN "file"
  ELSE IF path = Folder THEN "directory"
  ELSE "none"

ExistsSync(path) == FileType(RealPath(path)) # "none"

StartsWith(string, prefix) ==
  /\ Len(prefix) <= Len(string)
  /\ SubSeq(string, 1, Len(prefix)) = prefix

\* realpathSync and statSync throw for a path that does not exist, and the
\* catch branch answers false
IsSafeToRead(path) ==
  /\ ExistsSync(path)
  /\ StartsWith(RealPath(path), SafeDir)
  /\ FileType(RealPath(path)) = "file"

-----------------------------------------------------------------------------
\* LogWatcher.  A file is the sequence of its lines, and a size or a position
\* in it is a number of lines.  A line is what JSON.parse and
\* isInterruptEntry make of it.

BACKFILL_LINES == 50
USER_INTERRUPT == "user_interrupt"

UserInterrupt == [text |-> "json", type |-> "user", marker |-> TRUE]
UserText == [text |-> "json", type |-> "user", marker |-> FALSE]
AssistantQuote == [text |-> "json", type |-> "assistant", marker |-> TRUE]
Broken == [text |-> "broken", type |-> "user", marker |-> TRUE]
Blank == [text |-> "blank", type |-> "none", marker |-> FALSE]

LogLines == {UserInterrupt, UserText, AssistantQuote, Broken, Blank}

\* line.trim() is not empty
Trimmed(line) == line.text # "blank"

\* JSON.parse(line) does not throw
Parses(line) == line.text = "json"

IsInterruptEntry(entry) == entry.type = "user" /\ entry.marker

\* the line gets through the trim test and the parse, and is an interrupt
Interrupts(line) == Trimmed(line) /\ Parses(line) /\ IsInterruptEntry(line)

LogEvent(sessionId) == [type |-> USER_INTERRUPT, sessionId |-> sessionId]

\* the lines the backward loop of processExistingContent may look at
Recent(lines) ==
  LET kept == SelectSeq(lines, Trimmed)
      first == IF Len(kept) > BACKFILL_LINES
                 THEN Len(kept) - BACKFILL_LINES + 1 ELSE 1
  IN SubSeq(kept, first, Len(kept))

\* the 'log' events of processExistingContent: the loop breaks at the first
\* interrupt entry it meets
ProcessExistingContent(sessionId, lines) ==
  IF \E i \in 1..Len(Recent(lines)) : Interrupts(Recent(lines)[i])
    THEN <<LogEvent(sessionId)>> ELSE <<>>

RECURSIVE ProcessUntilBroken(_, _)
ProcessUntilBroken(sessionId, lines) ==
  IF lines = <<>> \/ (Trimmed(Head(lines)) /\ ~Parses(Head(lines))) THEN <<>>
  ELSE (IF Interrupts(Head(lines)) THEN <<LogEvent(sessionId)>> ELSE <<>>)
       \o ProcessUntilBroken(sessionId, Tail(lines))

\* the 'log' events of the read loop of processNewLines: processLogEntry
\* for every line that parses
RECURSIVE ProcessLines(_, _)
ProcessLines(sessionId, lines) ==
  IF lines = <<>> THEN <<>>
  ELSE (IF Interrupts(Head(lines)) THEN <<LogEvent(sessionId)>> ELSE <<>>)
       \o ProcessLines(sessionId, Tail(lines))

\* the Coordinator's 'log' listener, for every event of a step
RECURSIVE HandleLogEvents(_, _)
HandleLogEvents(procs, events) ==
  IF events = <<>> THEN procs
  ELSE HandleLogEvents(HandleLogEvent(procs, Head(events).sessionId),
                       Tail(events))

RECURSIVE HandleLogEventsEmitted(_, _)
HandleLogEventsEmitted(procs, events) ==
  IF events = <<>> THEN <<>>
  ELSE UpdateStatusEmitted(procs, Head(events).sessionId, IDLE)
       \o HandleLogEventsEmitted(HandleLogEvent(procs, Head(events).sessionId),
                                 Tail(events))

SetTail(t, sessionId, entry) ==
  [s \in DOMAIN t \cup {sessionId} |-> IF s = sessionId THEN entry ELSE t[s]]

DropTail(t, sessionId) == [s \in DOMAIN t \ {sessionId} |-> t[s]]

\* watchLogFile with the file system at hand: the watchers it leaves, the
\* 'log' events of its backfill and the branch it took
WatchLogFileAt(t, sessionId, logPath, files) ==
  IF sessionId \in DOMAIN t
    THEN [tails |-> t, logged |-> <<>>, did |-> "watching"]
  ELSE IF logPath = NoPath \/ ~IsSafeToRead(logPath)
    THEN [tails |-> t, logged |-> <<>>, did |-> "unsafe"]
  ELSE IF ~ExistsSync(logPath)
    THEN [tails |-> t, logged |-> <<>>, did |-> "missing"]
  ELSE [tails |-> SetTail(t, sessionId,
                          [path |-> logPath,
                           startPosition |-> Len(files[RealPath(logPath)]),
                           lastPosition |-> Len(files[RealPath(logPath)])]),
        logged |-> ProcessExistingContent(sessionId,
                                          files[RealPath(logPath)]),
        did |-> "attached"]

StopWatchingKeepsEntry(t, sessionId) == t

StopWatching(t, sessionId) ==
  IF sessionId \in DOMAIN t THEN DropTail(t, sessionId) ELSE t

\* processNewLines up to the read: where the read starts
FromPosition(currentSize, fromPosition) ==
  IF currentSize < fromPosition THEN 0 ELSE fromPosition

\* the lines the stream delivers for the range it was opened with
Delivered(lines, from, to) ==
  SubSeq(lines, from + 1, IF to < Len(lines) THEN to ELSE Len(lines))

\* processNewLines after the read: the position is stored if the session
\* still has a watcher
StorePosition(t, sessionId, currentSize) ==
  IF sessionId \in DOMAIN t
    THEN [t EXCEPT ![sessionId].lastPosition = currentSize]
    ELSE t

-----------------------------------------------------------------------------
\* The state machine

Signals == HookEventType \cup {"interrupt"}

HookEvents ==
  [type : HookEventType, sessionId : Sessions,
   pid : {NoPid} \cup RealPids, log : LogInputs]

Store == [processes |-> processes, watchers |-> watchers]

NoneRemoved == [by |-> "none", pids |-> {}]

Removed(loop, before, after) ==
  IF Pids(before) \subseteq Pids(after) THEN NoneRemoved
  ELSE [by |-> loop, pids |-> Pids(before) \ Pids(after)]

\* the last signal of a session counts while all its hooks came without pid
Signal(sessionId, signal) ==
  IF lastSignal[sessionId] = "pid_hook" THEN lastSignal
  ELSE [lastSignal EXCEPT ![sessionId] = signal]

NoCall == [op |-> "none", pid |-> NoPid, tracked |-> FALSE]

NoPass == [pc |-> "idle", todo |-> <<>>, dead |-> <<>>]

\* a Coordinator that has been constructed and not started
NoTimers ==
  [phase |-> "constructed", scanTimer |-> "none", dirUpdateTimer |-> "none",
   pidCheckInterval |-> FALSE, stopped |-> FALSE, stoppingAll |-> FALSE]

\* the events of the Coordinator a WebSocket connection listens to
SocketEvents == {"update", "session:updated", "session:removed"}

\* no connection was made yet
NoSockets ==
  [made |-> 0, open |-> {}, listeners |-> [event \in SocketEvents |-> <<>>]]

NoCycle == [pc |-> "idle", dirs |-> <<>>, toResolve |-> <<>>, values |-> <<>>]

Init ==
  /\ processes = <<>>
  /\ watchers = {}
  /\ retry = {}
  /\ alive \in SUBSET RealPids
  /\ now = ClockEpoch
  /\ scanResult = {}
  /\ scanPc = "idle"
  /\ liveTodo = <<>>
  /\ liveDead = <<>>
  /\ livePc = "idle"
  /\ lastSignal = [s \in Sessions |-> "none"]
  /\ lastRemoved = NoneRemoved
  /\ inputs = 0
  /\ emitted = <<>>
  /\ lastCall = NoCall
  /\ buried = {}
  /\ overlap = NoPass
  /\ cache = <<>>
  /\ resolving = {}
  /\ lookups = <<>>
  /\ cycle = NoCycle
  /\ disk = [file \in RegularFiles |-> <<>>]
  /\ tails = <<>>
  /\ timers = NoTimers
  /\ sockets = NoSockets
  /\ reads = <<>>
  /\ logged = <<>>

\* POST /api/hooks/:type -> Coordinator.receiveHook
ReceiveHook(event) ==
  LET st == HandleHookEvent(Store, event, now)
      attached == event.sessionId \in st.watchers \ watchers
  IN /\ processes' = st.processes
     /\ watchers' = st.watchers
     /\ retry' = IF event.log = "missing"
                   THEN retry \cup {event.sessionId} ELSE retry
     /\ lastSignal' =
          IF event.pid # NoPid
            THEN [lastSignal EXCEPT ![event.sessionId] = "pid_hook"]
          ELSE IF attached /\ event.log = "interrupted"
            THEN Signal(event.sessionId, "interrupt")
          ELSE Signal(event.sessionId, event.type)
     /\ lastRemoved' = NoneRemoved
     /\ UNCHANGED <<alive, now, scanResult, scanPc, liveTodo, liveDead, livePc>>

\* the retry timer of startWatchingLogs fires: findLogFile, then watchLogFile
RetryAttach(sessionId, log) ==
  LET st == StartWatchingLogs(Store, sessionId, log)
      attached == sessionId \in st.watchers \ watchers
  IN /\ sessionId \in retry
     /\ retry' = retry \ {sessionId}
     /\ processes' = st.processes
     /\ watchers' = st.watchers
     /\ lastSignal' = IF attached /\ log = "interrupted"
                        THEN Signal(sessionId, "interrupt") ELSE lastSignal
     /\ lastRemoved' = NoneRemoved
     /\ UNCHANGED <<alive, now, scanResult, scanPc, liveTodo, liveDead, livePc>>

\* a change of a watched log file whose new lines hold an interrupt entry:
\* LogWatcher emits 'log', the Coordinator handles it
LogInterrupt(sessionId) ==
  /\ sessionId \in watchers
  /\ processes' = HandleLogEvent(processes, sessionId)
  /\ lastSignal' = Signal(sessionId, "interrupt")
  /\ lastRemoved' = NoneRemoved
  /\ UNCHANGED <<watchers, retry, alive, now, scanResult, scanPc, liveTodo,
                 liveDead, livePc>>

\* scanProcesses up to its await: the process table is sampled; a query
\* that fails yields the empty list
ScanStart ==
  /\ scanPc = "idle"
  /\ scanPc' = "querying"
  /\ \E ok \in BOOLEAN : scanResult' = IF ok THEN alive ELSE {}
  /\ lastRemoved' = NoneRemoved
  /\ UNCHANGED <<processes, watchers, retry, alive, now, liveTodo, liveDead,
                 livePc, lastSignal>>

\* scanProcesses after its await
ScanComplete ==
  /\ scanPc = "querying"
  /\ \E lines \in Listings(scanResult) :
       LET st == ApplyScan(Store, lines)
       IN /\ processes' = st.processes
          /\ watchers' = st.watchers
          /\ lastRemoved' = Removed("scan", processes, st.processes)
  /\ scanPc' = "idle"
  /\ scanResult' = {}
  /\ UNCHANGED <<retry, alive, now, liveTodo, liveDead, livePc, lastSignal>>

\* the liveness pass from `run` on: to its next probe, or to its end, where
\* the pids found dead are removed
LivenessRun(run) ==
  IF run.todo = <<>>
    THEN LET st == RemoveDead(Store, run.dead)
         IN /\ processes' = st.processes
            /\ watchers' = st.watchers
            /\ liveTodo' = <<>>
            /\ liveDead' = <<>>
            /\ livePc' = "idle"
            /\ lastRemoved' = Removed("liveness", processes, st.processes)
    ELSE /\ liveTodo' = run.todo
         /\ liveDead' = run.dead
         /\ livePc' = "probing"
         /\ lastRemoved' = NoneRemoved
         /\ UNCHANGED <<processes, watchers>>

\* the interval timer starts checkDeadProcesses
LiveStart ==
  /\ livePc = "idle"
  /\ processes # <<>>
  /\ LivenessRun(SkipInvalid([i \in 1..Len(processes) |-> processes[i].pid],
                             <<>>))
  /\ UNCHANGED <<retry, alive, now, scanResult, scanPc, lastSignal>>

\* isProcessRunning answers for the pid the pass waits on: kill -0 succeeds
\* for a process the scan matches, and may succeed for a pid another process
\* of the machine holds
LiveProbe ==
  /\ livePc = "probing"
  /\ \E running \in (IF Head(liveTodo) \in alive THEN {TRUE} ELSE BOOLEAN) :
       LivenessRun(SkipInvalid(Tail(liveTodo),
                               IF running
                                 THEN liveDead
                                 ELSE Append(liveDead, Head(liveTodo))))
  /\ UNCHANGED <<retry, alive, now, scanResult, scanPc, lastSignal>>

\* a matching process starts; the OS may hand out a pid again
OsSpawn(pid) ==
  /\ pid \notin alive
  /\ alive' = alive \cup {pid}
  /\ lastRemoved' = NoneRemoved
  /\ UNCHANGED <<processes, watchers, retry, now, scanResult, scanPc, liveTodo,
                 liveDead, livePc, lastSignal>>

OsExit(pid) ==
  /\ pid \in alive
  /\ alive' = alive \ {pid}
  /\ lastRemoved' = NoneRemoved
  /\ UNCHANGED <<processes, watchers, retry, now, scanResult, scanPc, liveTodo,
                 liveDead, livePc, lastSignal>>

\* a millisecond passes
Tick ==
  /\ now < ClockEpoch + MaxTick
  /\ now' = now + 1
  /\ lastRemoved' = NoneRemoved
  /\ UNCHANGED <<processes, watchers, retry, alive, scanResult, scanPc,
                 liveTodo, liveDead, livePc, lastSignal>>

\* an input, or the start of a loop pass, within the bound of the model
Spend(bound) ==
  /\ inputs < bound
  /\ inputs' = inputs + 1
  /\ UNCHANGED <<storeHistory, overlap, resolverVars, tailVars, lifeVars>>

Free ==
  UNCHANGED <<inputs, storeHistory, overlap, resolverVars, tailVars, lifeVars>>

Next ==
  \/ Spend(MaxInputs) /\ \E event \in HookEvents : ReceiveHook(event)
  \/ Spend(MaxInputs) /\ \E sessionId \in Sessions : LogInterrupt(sessionId)
  \/ Spend(MaxInputs) /\ \E pid \in RealPids : OsSpawn(pid)
  \/ Spend(MaxInputs) /\ \E pid \in RealPids : OsExit(pid)
  \/ Spend(MaxInputs) /\ ScanStart
  \/ Spend(MaxInputs) /\ LiveStart
  \/ Free /\ \E sessionId \in Sessions, log \in {"missing"} \cup LogFiles :
               RetryAttach(sessionId, log)
  \/ Free /\ ScanComplete
  \/ Free /\ LiveProbe
  \/ Free /\ Tick

Spec == Init /\ [][Next]_vars

-----------------------------------------------------------------------------
\* The store's operations called directly, in any order

StorePids == RealPids \cup {ClockEpoch}

StoreUpdates ==
  {NoUpdates}
    \cup [sessionId : Sessions]
    \cup [status : {IDLE, RUNNING}]
    \cup [sessionId : Sessions, status : {IDLE, RUNNING}]

StoreCall(procs) ==
  /\ processes' = procs
  /\ lastRemoved' = Removed("call", processes, procs)
  /\ UNCHANGED <<watchers, retry, alive, now, scanResult, scanPc, liveTodo,
                 liveDead, livePc, lastSignal, overlap, resolverVars,
                 tailVars, lifeVars>>

Upsert(pid, updates) == StoreCall(UpsertProcess(processes, pid, updates))

UpdateStatus(sessionId, status) ==
  StoreCall(UpdateStatusBySessionId(processes, sessionId, status))

Associate(pid, sessionId) ==
  StoreCall(AssociateSession(processes, pid, sessionId))

Metrics(pid, metrics) == StoreCall(UpdateMetrics(processes, pid, metrics))

Remove(pid) == StoreCall(RemoveProcess(processes, pid))

Unobserved == UNCHANGED <<inputs, storeHistory>>

StoreNext ==
  \/ Unobserved /\ \E pid \in StorePids, updates \in StoreUpdates :
                      Upsert(pid, updates)
  \/ Unobserved /\ \E sessionId \in Sessions, status \in {IDLE, RUNNING} :
                      UpdateStatus(sessionId, status)
  \/ Unobserved /\ \E pid \in StorePids, sessionId \in Sessions :
                      Associate(pid, sessionId)
  \/ Unobserved /\ \E pid \in StorePids : Metrics(pid, ScanMetrics)
  \/ Unobserved /\ \E pid \in StorePids : Remove(pid)

\* the store of a Coordinator that has not run yet
StoreInit == Init /\ alive = {}

StoreSpec == StoreInit /\ [][StoreNext]_vars

-----------------------------------------------------------------------------
\* The store's operations with all the fields of a record and with the
\* notifications each call emits

RecordPids == {1, ClockEpoch}

RecordUpdates ==
  {NoUpdates}
    \cup [sessionId : Sessions]
    \cup [status : {IDLE, RUNNING}]
    \cup [cpuUsage : {5}]
    \cup [workingDir : {"/a"}]
    \cup [sessionId : {"abc"}, status : {RUNNING}, cpuUsage : {5},
          memoryUsage : {5}, workingDir : {"/a"}]

MetricUpdates ==
  [cpuUsage : Usages] \cup [memoryUsage : Usages]
    \cup [cpuUsage : Usages, memoryUsage : Usages]

\* the call is counted and its notifications are recorded
Observed(op, pid, notes) ==
  /\ inputs' = inputs + 1
  /\ emitted' = notes
  /\ lastCall' = [op |-> op, pid |-> pid, tracked |-> pid \in Pids(processes)]
  /\ buried' = buried \cup (Pids(processes) \ Pids(processes'))

RecordUpsert(pid, updates) ==
  /\ inputs < MaxCalls
  /\ Upsert(pid, updates)
  /\ Observed("upsert", pid, UpsertEmitted(processes, pid, updates))

RecordUpdateStatus(sessionId, status) ==
  LET i == GetProcessBySessionId(processes, sessionId)
  IN /\ inputs < MaxCalls
     /\ UpdateStatus(sessionId, status)
     /\ Observed("updateStatus", IF i # 0 THEN processes[i].pid ELSE NoPid,
                 UpdateStatusEmitted(processes, sessionId, status))

RecordAssociate(pid, sessionId) ==
  /\ inputs < MaxCalls
  /\ Associate(pid, sessionId)
  /\ Observed("associate", pid, AssociateEmitted(processes, pid, sessionId))

RecordMetrics(pid, metrics) ==
  /\ inputs < MaxCalls
  /\ Metrics(pid, metrics)
  /\ Observed("updateMetrics", pid,
              UpdateMetricsEmitted(processes, pid, metrics))

RecordUpdateProcess(pid, updates) ==
  /\ inputs < MaxCalls
  /\ StoreCall(UpdateProcess(processes, pid, updates))
  /\ Observed("updateProcess", pid,
              UpdateProcessEmitted(processes, pid, updates))

RecordRemove(pid) ==
  /\ inputs < MaxCalls
  /\ Remove(pid)
  /\ Observed("remove", pid, RemoveEmitted(processes, pid))

RecordClear ==
  /\ inputs < MaxCalls
  /\ StoreCall(Clear(processes))
  /\ Observed("clear", NoPid, ClearEmitted(processes))

RecordNext ==
  \/ \E pid \in RecordPids, updates \in RecordUpdates :
       RecordUpsert(pid, updates)
  \/ \E sessionId \in Sessions, status \in {IDLE, RUNNING} :
       RecordUpdateStatus(sessionId, status)
  \/ \E pid \in RecordPids, sessionId \in Sessions :
       RecordAssociate(pid, sessionId)
  \/ \E pid \in RecordPids, metrics \in MetricUpdates :
       RecordMetrics(pid, metrics)
  \/ \E pid \in RecordPids, dir \in Dirs :
       RecordUpdateProcess(pid, [workingDir |-> dir])
  \/ \E pid \in RecordPids : RecordRemove(pid)
  \/ RecordClear

RecordSpec == StoreInit /\ [][RecordNext]_vars

-----------------------------------------------------------------------------
\* The loops under fair scheduling: the scan re-arms its timer after every
\* cycle and the liveness pass runs on an interval timer, so neither loop is
\* held back for ever.  The inputs are bounded, the loops are not.  The hooks
\* are those that name a pid and carry no transcript path: the clock, read
\* for a hook without pid only, and the log watcher stay as they are.

PidHookEvents ==
  {event \in HookEvents : event.pid # NoPid /\ event.log = "none"}

FairNext ==
  \/ Spend(MaxFairInputs) /\ \E event \in PidHookEvents : ReceiveHook(event)
  \/ Spend(MaxFairInputs) /\ \E pid \in RealPids : OsSpawn(pid)
  \/ Spend(MaxFairInputs) /\ \E pid \in RealPids : OsExit(pid)
  \/ Free /\ ScanStart
  \/ Free /\ ScanComplete
  \/ Free /\ LiveStart
  \/ Free /\ LiveProbe

FairSpec ==
  /\ Init
  /\ [][FairNext]_vars
  /\ WF_vars(Free /\ (ScanStart \/ ScanComplete))
  /\ WF_vars(Free /\ (LiveStart \/ LiveProbe))

-----------------------------------------------------------------------------
\* The scan loop and the liveness loop side by side, with a second liveness
\* pass that the interval timer starts while the first one is still probing,
\* and with the notifications of every step

\* the notifications of handleHookEvent for a hook that names its pid
HandleHookEmitted(st, event, clock) ==
  UpsertEmitted(st.processes, HookPid(st.processes, event, clock),
                [sessionId |-> event.sessionId,
                 status |-> StatusFor(event.type),
                 displayName |-> DisplayName(event.sessionId)])

Told(notes) ==
  /\ emitted' = notes
  /\ UNCHANGED <<lastCall, resolverVars, tailVars, lifeVars>>
  /\ buried' = buried \cup (Pids(processes) \ Pids(processes'))

Input == inputs < MaxRaceInputs /\ inputs' = inputs + 1

RaceHook(event) ==
  /\ Input
  /\ ReceiveHook(event)
  /\ Told(HandleHookEmitted(Store, event, now))
  /\ UNCHANGED overlap

RaceSpawn(pid) == Input /\ OsSpawn(pid) /\ Told(<<>>) /\ UNCHANGED overlap

RaceExit(pid) == Input /\ OsExit(pid) /\ Told(<<>>) /\ UNCHANGED overlap

RaceScanStart == ScanStart /\ Told(<<>>) /\ UNCHANGED <<inputs, overlap>>

RaceScanComplete ==
  /\ ScanComplete
  /\ \E lines \in Listings(scanResult) :
       /\ processes' = ApplyScan(Store, lines).processes
       /\ Told(ApplyScanEmitted(Store, lines))
  /\ UNCHANGED <<inputs, overlap>>

LivenessEmitted(run) ==
  IF run.todo = <<>> THEN RemoveDeadEmitted(Store, run.dead) ELSE <<>>

RaceLiveStart ==
  /\ LiveStart
  /\ Told(LivenessEmitted(
            SkipInvalid([i \in 1..Len(processes) |-> processes[i].pid], <<>>)))
  /\ UNCHANGED <<inputs, overlap>>

RaceLiveProbe ==
  /\ LiveProbe
  /\ \E running \in (IF Head(liveTodo) \in alive THEN {TRUE} ELSE BOOLEAN) :
       LET run == SkipInvalid(Tail(liveTodo),
                              IF running THEN liveDead
                              ELSE Append(liveDead, Head(liveTodo)))
       IN /\ liveTodo' = run.todo
          /\ run.todo # <<>> => liveDead' = run.dead
          /\ run.todo = <<>> => processes' = RemoveDead(Store, run.dead).processes
          /\ Told(LivenessEmitted(run))
  /\ UNCHANGED <<inputs, overlap>>

\* the second pass from `run` on
OverlapRun(run) ==
  IF run.todo = <<>>
    THEN LET st == RemoveDead(Store, run.dead)
         IN /\ processes' = st.processes
            /\ watchers' = st.watchers
            /\ overlap' = NoPass
            /\ lastRemoved' = Removed("liveness", processes, st.processes)
            /\ Told(RemoveDeadEmitted(Store, run.dead))
    ELSE /\ overlap' = [pc |-> "probing", todo |-> run.todo, dead |-> run.dead]
         /\ lastRemoved' = NoneRemoved
         /\ UNCHANGED <<processes, watchers>>
         /\ Told(<<>>)

\* the interval timer fires while the pass before is waiting for a probe
OverlapStart ==
  /\ livePc = "probing"
  /\ overlap.pc = "idle"
  /\ processes # <<>>
  /\ OverlapRun(SkipInvalid([i \in 1..Len(processes) |-> processes[i].pid],
                            <<>>))
  /\ UNCHANGED <<retry, alive, now, scanResult, scanPc, liveTodo, liveDead,
                 livePc, lastSignal, inputs>>

OverlapProbe ==
  /\ overlap.pc = "probing"
  /\ \E running \in (IF Head(overlap.todo) \in alive THEN {TRUE} ELSE BOOLEAN) :
       OverlapRun(SkipInvalid(Tail(overlap.todo),
                              IF running THEN overlap.dead
                              ELSE Append(overlap.dead, Head(overlap.todo))))
  /\ UNCHANGED <<retry, alive, now, scanResult, scanPc, liveTodo, liveDead,
                 livePc, lastSignal, inputs>>

RaceNext ==
  \/ \E event \in PidHookEvents : RaceHook(event)
  \/ \E pid \in RealPids : RaceSpawn(pid)
  \/ \E pid \in RealPids : RaceExit(pid)
  \/ RaceScanStart
  \/ RaceScanComplete
  \/ RaceLiveStart
  \/ RaceLiveProbe
  \/ OverlapStart
  \/ OverlapProbe

RaceSpec == Init /\ [][RaceNext]_vars

-----------------------------------------------------------------------------
\* The working-directory loop: the resolver, its callers and the records the
\* refresh cycle writes to

Resolver == [cache |-> cache, resolving |-> resolving, lookups |-> lookups]

ResolverIs(r) ==
  /\ resolving' = r.resolving
  /\ lookups' = r.lookups

\* what the step leaves alone outside the store and the resolver
Elsewhere ==
  UNCHANGED <<watchers, retry, alive, scanResult, scanPc, liveTodo, liveDead,
              livePc, lastSignal, overlap, buried, tailVars, lifeVars>>

Returned(op, pid, got) ==
  lastCall' = [op |-> op, pid |-> pid, how |-> got.how, dir |-> got.dir]

\* the same for a step that may run cleanupCache, with the pids whose cache
\* entries the step deleted
ReturnedSwept(op, pid, got) ==
  lastCall' = [op |-> op, pid |-> pid, how |-> got.how, dir |-> got.dir,
               swept |-> DOMAIN cache \ DOMAIN cache']

DirInput == inputs < MaxDirInputs /\ inputs' = inputs + 1

\* the scan finds a process
DirUpsert(pid) ==
  /\ inputs < MaxDirInputs
  /\ Upsert(pid, ProcessInfo)
  /\ Observed("upsert", pid, UpsertEmitted(processes, pid, ProcessInfo))

\* a loop removes a record
DirRemove(pid) ==
  /\ inputs < MaxDirInputs
  /\ Remove(pid)
  /\ Observed("remove", pid, RemoveEmitted(processes, pid))

\* a caller asks for the directory of one pid
DirectCall(pid) ==
  LET got == GetWorkingDir(Resolver, pid, now, FALSE)
  IN /\ DirInput
     /\ ResolverIs(got.resolver)
     /\ Returned("getWorkingDir", pid, got)
     /\ emitted' = <<>>
     /\ lastRemoved' = NoneRemoved
     /\ UNCHANGED <<processes, cache, cycle, now>>
     /\ Elsewhere

\* updateWorkingDirs from the return of getWorkingDirs on: the directories
\* are merged into the records and the cache is cleaned up
FinishCycle(c, entries) ==
  /\ processes' = MergeDirs(processes, entries)
  /\ emitted' = MergeDirsEmitted(processes, entries)
  /\ cache' = CleanupCache(c, now)
  /\ cycle' = [NoCycle EXCEPT !.dirs = entries]

\* updateWorkingDirs up to the await of getWorkingDirs, and to its end if no
\* pid is left to resolve
UpdateWorkingDirs ==
  LET pids == SelectSeq([i \in 1..Len(processes) |-> processes[i].pid],
                        LAMBDA pid : pid < PlaceholderFloor)
      answered == Answered(Resolver, pids, now)
      toResolve == ToResolve(Resolver, pids, now)
      started == StartAll(Resolver, <<>>, toResolve, now)
      waiting == {toResolve[i] : i \in 1..Len(toResolve)}
                   \ DOMAIN started.values
  IN /\ cycle.pc = "idle"
     /\ IF pids = <<>>
          THEN /\ emitted' = <<>>
               /\ UNCHANGED <<processes, resolverVars>>
        ELSE IF waiting = {}
          THEN /\ ResolverIs(started.resolver)
               /\ FinishCycle(cache,
                              Entries(answered, toResolve, started.values))
        ELSE /\ ResolverIs(started.resolver)
             /\ cycle' = [pc |-> "waiting", dirs |-> answered,
                          toResolve |-> toResolve, values |-> started.values]
             /\ emitted' = <<>>
             /\ UNCHANGED <<processes, cache>>
     /\ ReturnedSwept("updateWorkingDirs", NoPid,
                      [how |-> "started", dir |-> NoDir])

\* the refresh timer fires
DirsStart ==
  /\ DirInput
  /\ lastRemoved' = NoneRemoved
  /\ UNCHANGED now
  /\ Elsewhere
  /\ UpdateWorkingDirs

\* resolveWorkingDir settles for lookup k; when it is the last one the
\* refresh cycle waits for, the cycle runs to its end
LookupSettles(k, result) ==
  LET lookup == lookups[k]
      got == Settle(Resolver, k, result, now)
      values == SetCache(cycle.values, lookup.pid, got.dir)
      waiting == {cycle.toResolve[i] : i \in 1..Len(cycle.toResolve)}
                   \ DOMAIN values
  IN /\ k \in 1..Len(lookups)
     /\ ResolverIs(got.resolver)
     /\ IF ~lookup.batch
          THEN /\ cache' = got.resolver.cache
               /\ emitted' = <<>>
               /\ UNCHANGED <<processes, cycle>>
        ELSE IF waiting # {}
          THEN /\ cache' = got.resolver.cache
               /\ cycle' = [cycle EXCEPT !.values = values]
               /\ emitted' = <<>>
               /\ UNCHANGED processes
        ELSE FinishCycle(got.resolver.cache,
                         Entries(cycle.dirs, cycle.toResolve, values))
     /\ ReturnedSwept("lookupDone", lookup.pid, got)

LookupDone(k, result) ==
  /\ lastRemoved' = NoneRemoved
  /\ UNCHANGED <<now, inputs>>
  /\ Elsewhere
  /\ LookupSettles(k, result)

\* the 30 s of the cache's freshness window pass
DirWait ==
  /\ now < ClockEpoch + MaxWait * CACHE_TTL
  /\ now' = now + CACHE_TTL
  /\ lastCall' = NoCall
  /\ emitted' = <<>>
  /\ lastRemoved' = NoneRemoved
  /\ UNCHANGED <<processes, resolverVars, inputs>>
  /\ Elsewhere

DirNext ==
  \/ \E pid \in RealPids : DirUpsert(pid)
  \/ \E pid \in RealPids : DirRemove(pid)
  \/ \E pid \in RealPids : DirectCall(pid)
  \/ DirsStart
  \/ \E k \in 1..Len(lookups), result \in LookupResults : LookupDone(k, result)
  \/ DirWait

DirSpec == StoreInit /\ [][DirNext]_vars

-----------------------------------------------------------------------------
\* The log tailer: one session's watcher, the files it is pointed at and the
\* file system under it

TailSessions == {"abc"}

\* what one write appends to a file
Chunks ==
  {<<line>> : line \in LogLines}
    \cup {[i \in 1..(BACKFILL_LINES - 1) |-> UserText]}

NoRead == <<>>

Content(path) == disk[RealPath(path)]

TailElsewhere ==
  UNCHANGED <<retry, alive, now, scanResult, scanPc, liveTodo, liveDead,
              livePc, lastSignal, lastRemoved, overlap, buried, resolverVars,
              lifeVars>>

TailInput == inputs < MaxTailInputs /\ inputs' = inputs + 1

\* the outcome of a LogWatcher step: its 'log' events, handled by the
\* Coordinator's listener as they are emitted
Logged(events) ==
  /\ logged' = events
  /\ processes' = HandleLogEvents(processes, events)
  /\ emitted' = HandleLogEventsEmitted(processes, events)
  /\ watchers' = DOMAIN tails'

Called(op, sessionId, path, did, from, to, lines) ==
  lastCall' = [op |-> op, sessionId |-> sessionId, path |-> path,
               did |-> did, from |-> from, to |-> to, lines |-> lines]

\* a request_start hook that names pid 1 and carries no transcript path
TailHook(sessionId) ==
  LET event == [type |-> REQUEST_START, sessionId |-> sessionId, pid |-> 1,
                log |-> "none"]
  IN /\ TailInput
     /\ processes' = HandleHookEvent(Store, event, now).processes
     /\ emitted' = HandleHookEmitted(Store, event, now)
     /\ logged' = <<>>
     /\ Called("receiveHook", sessionId, NoPath, "upserted", 0, 0, NoRead)
     /\ UNCHANGED <<watchers, disk, tails, reads>>
     /\ TailElsewhere

\* another program appends lines to a file
TailWrite(path, chunk) ==
  /\ TailInput
  /\ disk' = [disk EXCEPT ![path] = @ \o chunk]
  /\ logged' = <<>>
  /\ emitted' = <<>>
  /\ lastCall' = NoCall
  /\ UNCHANGED <<processes, watchers, tails, reads>>
  /\ TailElsewhere

\* another program cuts a file down to its first lines
TailTruncate(path, size) ==
  /\ TailInput
  /\ size < Len(disk[path])
  /\ disk' = [disk EXCEPT ![path] = SubSeq(@, 1, size)]
  /\ logged' = <<>>
  /\ emitted' = <<>>
  /\ lastCall' = NoCall
  /\ UNCHANGED <<processes, watchers, tails, reads>>
  /\ TailElsewhere

\* watchLogFile, which runs processExistingContent to its end
TailAttach(sessionId, logPath) ==
  LET got == WatchLogFileAt(tails, sessionId, logPath, disk)
  IN /\ TailInput
     /\ tails' = got.tails
     /\ Logged(got.logged)
     /\ Called("watchLogFile", sessionId, logPath, got.did, 0,
               IF got.did = "attached" THEN Len(Content(logPath)) ELSE 0,
               IF got.did = "attached" THEN Recent(Content(logPath))
               ELSE NoRead)
     /\ UNCHANGED <<disk, reads>>
     /\ TailElsewhere

\* the Coordinator's 'process:removed' listener stops the session's watcher
TailStop(sessionId) ==
  /\ tails' = StopWatching(tails, sessionId)
  /\ Logged(<<>>)
  /\ Called("stopWatching", sessionId, NoPath,
            IF sessionId \in DOMAIN tails THEN "stopped" ELSE "nothing",
            0, 0, NoRead)
  /\ UNCHANGED <<disk, reads, inputs>>
  /\ TailElsewhere

\* the watcher's 'change' listener: processNewLines up to its first await
TailChange(sessionId) ==
  LET logPath == tails[sessionId].path
      currentSize == Len(Content(logPath))
      from == FromPosition(currentSize, tails[sessionId].lastPosition)
  IN /\ sessionId \in DOMAIN tails
     /\ Len(reads) < MaxReads
     /\ reads' = IF currentSize = from THEN reads
                 ELSE Append(reads, [sessionId |-> sessionId,
                                     path |-> logPath,
                                     from |-> from, to |-> currentSize])
     /\ UNCHANGED <<disk, tails, inputs>>
     /\ Logged(<<>>)
     /\ Called("change", sessionId, logPath,
               IF currentSize = from THEN "nothing" ELSE "reading",
               from, currentSize, NoRead)
     /\ TailElsewhere

\* the stream of read k has delivered its lines: the rest of processNewLines
TailRead(k) ==
  LET read == reads[k]
      lines == Delivered(Content(read.path), read.from, read.to)
  IN /\ k \in 1..Len(reads)
     /\ reads' = SubSeq(reads, 1, k - 1) \o SubSeq(reads, k + 1, Len(reads))
     /\ tails' = StorePosition(tails, read.sessionId, read.to)
     /\ Logged(ProcessLines(read.sessionId, lines))
     /\ Called("processNewLines", read.sessionId, read.path, "read",
               read.from, read.to, lines)
     /\ UNCHANGED <<disk, inputs>>
     /\ TailElsewhere

TailNext ==
  \/ \E sessionId \in TailSessions : TailHook(sessionId)
  \/ \E path \in RegularFiles, chunk \in Chunks : TailWrite(path, chunk)
  \/ \E path \in RegularFiles, size \in {0, 1} : TailTruncate(path, size)
  \/ \E sessionId \in TailSessions, logPath \in LogPaths :
       TailAttach(sessionId, logPath)
  \/ \E sessionId \in TailSessions : TailStop(sessionId)
  \/ \E sessionId \in TailSessions : TailChange(sessionId)
  \/ \E k \in 1..MaxReads : TailRead(k)

TailSpec == StoreInit /\ [][TailNext]_vars

-----------------------------------------------------------------------------
\* One session from discovery to removal: a scan finds the process, hooks
\* without pid name its session and start a request, the log shows an
\* interrupt, a second scan finds the process again, the process exits and
\* a liveness pass removes the record.  `inputs` counts the steps done.

TraceEnd == 6

\* what the hooks of the trace say about the transcript
TraceLogs == {"none", "quiet", "unsafe", "missing"}

TraceInit == Init /\ Cardinality(alive) = 1

Step(n) == inputs = n /\ inputs' = n + 1

TraceScanStart ==
  /\ inputs \in {0, 4}
  /\ ScanStart
  /\ scanResult' = alive
  /\ Told(<<>>)
  /\ UNCHANGED <<inputs, overlap>>

TraceScanComplete ==
  /\ inputs' = inputs + 1
  /\ ScanComplete
  /\ \E lines \in Listings(scanResult) :
       /\ processes' = ApplyScan(Store, lines).processes
       /\ Told(ApplyScanEmitted(Store, lines))
  /\ UNCHANGED overlap

TraceSessionStart(sessionId, log) ==
  LET event == [type |-> SESSION_START, sessionId |-> sessionId,
                pid |-> NoPid, log |-> log]
  IN /\ Step(1)
     /\ ReceiveHook(event)
     /\ Told(HandleHookEmitted(Store, event, now))
     /\ UNCHANGED overlap

TraceRequestStart(sessionId, log) ==
  LET event == [type |-> REQUEST_START, sessionId |-> sessionId,
                pid |-> NoPid, log |-> log]
  IN /\ Step(2)
     /\ GetProcessBySessionId(processes, sessionId) # 0
     /\ ReceiveHook(event)
     /\ Told(HandleHookEmitted(Store, event, now))
     /\ UNCHANGED overlap

TraceInterrupt(sessionId) ==
  /\ Step(3)
  /\ LogInterrupt(sessionId)
  /\ Told(UpdateStatusEmitted(processes, sessionId, IDLE))
  /\ UNCHANGED overlap

TraceExit(pid) ==
  /\ inputs = 5
  /\ OsExit(pid)
  /\ Told(<<>>)
  /\ UNCHANGED <<inputs, overlap>>

\* the retry timer of a hook whose transcript was not there yet
TraceRetry(sessionId) ==
  /\ inputs < TraceEnd
  /\ RetryAttach(sessionId, "quiet")
  /\ Told(<<>>)
  /\ UNCHANGED <<inputs, overlap>>

\* a liveness pass, at any point of the trace
TraceLiveStart ==
  /\ inputs < TraceEnd
  /\ LiveStart
  /\ Told(<<>>)
  /\ UNCHANGED <<inputs, overlap>>

TraceLiveProbe ==
  /\ LiveProbe
  /\ \E running \in (IF Head(liveTodo) \in alive THEN {TRUE} ELSE BOOLEAN) :
       LET run == SkipInvalid(Tail(liveTodo),
                              IF running THEN liveDead
                              ELSE Append(liveDead, Head(liveTodo)))
       IN /\ liveTodo' = run.todo
          /\ run.todo # <<>> => liveDead' = run.dead
          /\ run.todo = <<>> => processes' = RemoveDead(Store, run.dead).processes
          /\ Told(LivenessEmitted(run))
  /\ inputs' = IF processes' = processes THEN inputs ELSE TraceEnd
  /\ UNCHANGED overlap

TraceNext ==
  \/ TraceScanStart
  \/ TraceScanComplete
  \/ \E sessionId \in Sessions, log \in TraceLogs :
       TraceSessionStart(sessionId, log)
  \/ \E sessionId \in Sessions, log \in TraceLogs :
       TraceRequestStart(sessionId, log)
  \/ \E sessionId \in Sessions : TraceInterrupt(sessionId)
  \/ \E sessionId \in Sessions : TraceRetry(sessionId)
  \/ \E pid \in RealPids : TraceExit(pid)
  \/ TraceLiveStart
  \/ TraceLiveProbe

TraceSpec == TraceInit /\ [][TraceNext]_vars

-----------------------------------------------------------------------------
\* The three loops of Coordinator.start next to the hooks and the log
\* interrupts of one session

LoopHookEvents ==
  [type : HookEventType, sessionId : {"abc"}, pid : {NoPid, 1},
   log : {"none", "quiet"}]

LoopInput == inputs < MaxLoopInputs /\ inputs' = inputs + 1

LoopHook(event) ==
  /\ LoopInput
  /\ ReceiveHook(event)
  /\ Told(HandleHookEmitted(Store, event, now))
  /\ UNCHANGED overlap

LoopInterrupt(sessionId) ==
  /\ LoopInput
  /\ LogInterrupt(sessionId)
  /\ Told(UpdateStatusEmitted(processes, sessionId, IDLE))
  /\ UNCHANGED overlap

LoopSpawn(pid) == LoopInput /\ OsSpawn(pid) /\ Told(<<>>) /\ UNCHANGED overlap

LoopExit(pid) == LoopInput /\ OsExit(pid) /\ Told(<<>>) /\ UNCHANGED overlap

\* the refresh timer fires
LoopDirsStart == inputs < MaxLoopInputs /\ DirsStart

LoopNext ==
  \/ \E event \in LoopHookEvents : LoopHook(event)
  \/ \E sessionId \in Sessions : LoopInterrupt(sessionId)
  \/ \E pid \in RealPids : LoopSpawn(pid)
  \/ \E pid \in RealPids : LoopExit(pid)
  \/ RaceScanStart
  \/ RaceScanComplete
  \/ RaceLiveStart
  \/ RaceLiveProbe
  \/ LoopDirsStart
  \/ \E k \in 1..Len(lookups), result \in LookupResults : LookupDone(k, result)

LoopSpec == Init /\ [][LoopNext]_vars

-----------------------------------------------------------------------------
\* The hook endpoint: app.post('/api/hooks/:type')

NoSession == ""
NoType == "null"

\* the :type parameters the endpoint is called with
TypeParams ==
  HookEventType \cup {"SESSION_START", "Request_Stop", "session_end", ""}

\* the bodies: session_id absent or given, pid and transcript_path optional
Bodies ==
  [session_id : {NoSession} \cup Sessions, pid : {NoPid, 1},
   log : {"none", "quiet"}]

\* String.prototype.toLowerCase on the parameters at hand
ToLowerCase(string) ==
  IF string = "SESSION_START" THEN SESSION_START
  ELSE IF string = "Request_Stop" THEN REQUEST_STOP
  ELSE string

AnyEventType(typeParam) ==
  IF typeParam \in HookEventType THEN typeParam ELSE SESSION_START

\* the three comparisons that set eventType, null when none matches
EventTypeOf(typeParam) ==
  IF typeParam \in HookEventType THEN typeParam ELSE NoType

Responded(typeParam, body, status) ==
  lastCall' = [op |-> "post", type |-> typeParam,
               sessionId |-> body.session_id, status |-> status]

PostHook(typeParam, body) ==
  LET eventType == EventTypeOf(ToLowerCase(typeParam))
      event == [type |-> eventType, sessionId |-> body.session_id,
                pid |-> body.pid, log |-> body.log]
  IN /\ inputs < MaxPosts
     /\ inputs' = inputs + 1
     /\ UNCHANGED <<overlap, resolverVars, tailVars, lifeVars>>
     /\ IF eventType = NoType \/ body.session_id = NoSession
          THEN /\ Responded(typeParam, body, 400)
               /\ emitted' = <<>>
               /\ lastRemoved' = NoneRemoved
               /\ UNCHANGED <<processes, watchers, retry, alive, now,
                              scanResult, scanPc, liveTodo, liveDead, livePc,
                              lastSignal, buried>>
          ELSE /\ Responded(typeParam, body, 200)
               /\ ReceiveHook(event)
               /\ emitted' = HandleHookEmitted(Store, event, now)
               /\ UNCHANGED buried

PostNext == \E typeParam \in TypeParams, body \in Bodies : PostHook(typeParam, body)

PostSpec == StoreInit /\ [][PostNext]_vars

-----------------------------------------------------------------------------
\* Claims

Tracked(pid) == pid \in Pids(processes)

Bears(i, sessionId) == processes[i].sessionId = sessionId

\* C1: for a session whose hooks all came without pid, every record bearing
\* the sessionId is Running if the last signal applied for the session was
\* request_start and Idle if it was session_start, request_stop or a log
\* interrupt
LastSignalDecidesStatus ==
  \A s \in Sessions : \A i \in 1..Len(processes) :
    (Bears(i, s) /\ lastSignal[s] \in Signals) =>
      processes[i].status =
        (IF lastSignal[s] = REQUEST_START THEN RUNNING ELSE IDLE)

\* one session is Running after its request_start, the other was forced
\* Idle by a log interrupt
RunningAndInterrupted ==
  /\ lastSignal["abc"] = REQUEST_START
  /\ lastSignal["xyz"] = "interrupt"
  /\ \E i, j \in 1..Len(processes) :
       /\ Bears(i, "abc") /\ processes[i].status = RUNNING
       /\ Bears(j, "xyz") /\ processes[j].status = IDLE

\* C2: right after a log interrupt for a session is applied, every record
\* bearing the sessionId is Idle
InterruptIdlesEveryRecord ==
  [][\A s \in Sessions :
       LogInterrupt(s) =>
         \A i \in 1..Len(processes') :
           processes'[i].sessionId = s => processes'[i].status = IDLE]_vars

\* C3: when a request_start hook has been handled, log attachment and
\* backfill included, the record bearing its sessionId is Running
RequestStartLeavesRunning ==
  [][\A event \in HookEvents :
       (event.type = REQUEST_START /\ ReceiveHook(event)) =>
         LET i == GetProcessBySessionId(processes', event.sessionId)
         IN i # 0 /\ processes'[i].status = RUNNING]_vars

\* C4: no two records carry the same sessionId received from a hook
OneRecordPerSession ==
  \A i, j \in 1..Len(processes) :
    (i # j /\ processes[i].sessionId = processes[j].sessionId) =>
      IsSynthetic(processes[i].sessionId)

\* C5: the store never holds two records with the same pid
OneRecordPerPid ==
  \A i, j \in 1..Len(processes) :
    processes[i].pid = processes[j].pid => i = j

\* every pid is stored, a call has just written to the record of a pid
\* already stored, and two records carry one sessionId
EveryPidStoredAndRewritten ==
  /\ Pids(processes) = StorePids
  /\ lastRemoved = NoneRemoved
  /\ \E i \in 1..Len(processes) :
       processes[i].status = RUNNING /\ ~IsSynthetic(processes[i].sessionId)
  /\ \E i, j \in 1..Len(processes) :
       i # j /\ processes[i].sessionId = processes[j].sessionId

\* C6: a hook without pid for a sessionId no record carries, while some
\* record is still under a generated sessionId, binds the sessionId to the
\* first such record in insertion order, adds no record and leaves the
\* sessionId of every other record as it was
PidlessHookBindsFirstSynthetic ==
  [][\A event \in HookEvents :
       (/\ event.pid = NoPid
        /\ \A i \in 1..Len(processes) : ~Bears(i, event.sessionId)
        /\ \E i \in 1..Len(processes) : IsSynthetic(processes[i].sessionId)
        /\ ReceiveHook(event))
       => \E k \in 1..Len(processes) :
            /\ IsSynthetic(processes[k].sessionId)
            /\ \A j \in 1..(k - 1) : ~IsSynthetic(processes[j].sessionId)
            /\ Len(processes') = Len(processes)
            /\ processes'[k].sessionId = event.sessionId
            /\ \A j \in 1..Len(processes) :
                 /\ processes'[j].pid = processes[j].pid
                 /\ j # k => processes'[j].sessionId = processes[j].sessionId]_vars

\* both scanned processes were bound by hooks without pid, the first record
\* first, and each session has its own record
BothSyntheticRecordsBound ==
  /\ Len(processes) = 2
  /\ processes[1].pid \in RealPids /\ processes[2].pid \in RealPids
  /\ Bears(1, "xyz") /\ Bears(2, "abc")
  /\ lastSignal["xyz"] \in Signals /\ lastSignal["abc"] \in Signals

\* C7: a hook without pid for a sessionId no record carries, while no record
\* is under a generated sessionId, adds a record under a pid that is no real
\* pid and leaves every record held before as it was
PlaceholderNeverOverwrites ==
  [][\A event \in HookEvents :
       (/\ event.pid = NoPid
        /\ \A i \in 1..Len(processes) :
             ~Bears(i, event.sessionId) /\ ~IsSynthetic(processes[i].sessionId)
        /\ ReceiveHook(event))
       => /\ Len(processes') = Len(processes) + 1
          /\ processes'[Len(processes')].pid \notin RealPids
          /\ \A i \in 1..Len(processes) :
               /\ processes'[i].pid = processes[i].pid
               /\ processes'[i].sessionId = processes[i].sessionId]_vars

\* C8: a completed scan has removed exactly the tracked real pids absent from
\* its result: every real pid still tracked is in the result and every
\* placeholder record is still held
ScanRemovesAbsentRealPids ==
  [][ScanComplete =>
       /\ Pids(processes) \ Pids(processes') =
            {pid \in Pids(processes) : pid \in RealPids /\ pid \notin scanResult}
       /\ \A pid \in Pids(processes') : pid \in RealPids => pid \in scanResult
       /\ \A i \in 1..Len(processes) :
            processes[i].pid \notin RealPids =>
              \E j \in 1..Len(processes') : processes'[j] = processes[i]]_vars

\* a scan has just removed a real pid and left a placeholder record
ScanRemovedRealKeptPlaceholder ==
  /\ lastRemoved.by = "scan"
  /\ lastRemoved.pids \cap RealPids # {}
  /\ \E i \in 1..Len(processes) : processes[i].pid \notin RealPids

\* C9: a liveness pass removes no placeholder record
LivenessKeepsPlaceholders ==
  [][(LiveStart \/ LiveProbe) =>
       \A i \in 1..Len(processes) :
         processes[i].pid \notin RealPids => processes[i].pid \in Pids(processes')]_vars

\* C10, as stated: once the process of a tracked real pid has exited, its
\* record is eventually removed, whether or not a hook names the pid later
DeadPidEventuallyRemoved ==
  \A pid \in RealPids :
    (Tracked(pid) /\ pid \notin alive) ~> ~Tracked(pid)

\* C10: once the process of a tracked real pid has exited, its
\* record is eventually removed unless a new matching process has taken the
\* pid before a scan or a liveness pass saw it absent
DeadPidRemovedUnlessReused ==
  \A pid \in RealPids :
    (Tracked(pid) /\ pid \notin alive) ~> (~Tracked(pid) \/ pid \in alive)

\* a loop has just removed the record of a real pid whose process is gone
DeadPidWasRemoved ==
  /\ lastRemoved.by \in {"scan", "liveness"}
  /\ \E pid \in lastRemoved.pids : pid \in RealPids /\ pid \notin alive


Count(notes, type) ==
  Cardinality({k \in 1..Len(notes) : notes[k].type = type})

Supplied(updates, field, default) ==
  IF field \in DOMAIN updates THEN updates[field] ELSE default

\* C11: remove(pid) on a tracked pid deletes that record and no other and
\* emits one removal notification with the pid and the sessionId of the
\* record; remove(pid) on a pid not tracked changes nothing and emits nothing
RemoveDeletesAndNotifiesOnce ==
  [][\A pid \in RecordPids :
       RecordRemove(pid) =>
         IF Tracked(pid)
           THEN LET Other(process) == process.pid # pid
                IN /\ processes' = SelectSeq(processes, Other)
                   /\ Len(processes') = Len(processes) - 1
                   /\ Count(emitted', "process:removed") = 1
                   /\ \E k \in 1..Len(emitted'), i \in 1..Len(processes) :
                        /\ processes[i].pid = pid
                        /\ emitted'[k].type = "process:removed"
                        /\ emitted'[k].pid = pid
                        /\ emitted'[k].sessionId = processes[i].sessionId
           ELSE processes' = processes /\ emitted' = <<>>]_vars

\* a pid removed before was removed again, with another record in the store:
\* nothing was emitted
SecondRemoveWasSilent ==
  /\ lastCall.op = "remove"
  /\ lastCall.pid \in buried
  /\ ~lastCall.tracked
  /\ emitted = <<>>
  /\ processes # <<>>

FreshRecord(pid, updates) ==
  LET sessionId == Supplied(updates, "sessionId", "pid-" \o ToString(pid))
  IN [pid |-> pid,
      sessionId |-> sessionId,
      displayName |-> Supplied(updates, "displayName",
                               "Session " \o Substring8(sessionId)),
      status |-> Supplied(updates, "status", IDLE),
      cpuUsage |-> Supplied(updates, "cpuUsage", 0),
      memoryUsage |-> Supplied(updates, "memoryUsage", 0),
      startTime |-> Supplied(updates, "startTime", now),
      lastActiveTime |-> Supplied(updates, "lastActiveTime", now),
      firstSeenAt |-> Supplied(updates, "firstSeenAt", now),
      workingDir |-> Supplied(updates, "workingDir", NoDir)]

\* C13: a record created for a pid whose record was removed is made of the
\* pid and of the call's arguments alone, only upsert and associateSession
\* create a record, and no call emits a removal notification for a pid it did
\* not find in the store, or two for one pid
RemovedRecordStaysRemoved ==
  [][/\ \A pid \in RecordPids, updates \in RecordUpdates :
          (pid \in buried /\ ~Tracked(pid) /\ RecordUpsert(pid, updates)) =>
            processes' = Append(processes, FreshRecord(pid, updates))
     /\ \A pid \in RecordPids, sessionId \in Sessions :
          (pid \in buried /\ ~Tracked(pid) /\ RecordAssociate(pid, sessionId)) =>
            processes' =
              Append(processes,
                     FreshRecord(pid, [sessionId |-> sessionId,
                                       displayName |->
                                         DisplayName(sessionId)]))
     /\ \A pid \in RecordPids :
          Cardinality({k \in 1..Len(emitted') :
                         /\ emitted'[k].type = "process:removed"
                         /\ emitted'[k].pid = pid})
            <= (IF Tracked(pid) THEN 1 ELSE 0)
     /\ Pids(processes') \ Pids(processes) # {} =>
          lastCall'.op \in {"upsert", "associate"}]_vars

\* a record was created for a pid whose earlier record had been removed
RecreatedAfterRemoval ==
  /\ lastCall.op = "upsert"
  /\ lastCall.pid \in buried
  /\ ~lastCall.tracked
  /\ \E i \in 1..Len(processes) :
       /\ processes[i].pid = lastCall.pid
       /\ IsSynthetic(processes[i].sessionId)

\* C14: applying upsert(pid, partial) a second time leaves every record as
\* the first application left it
UpsertTwiceAsOnce ==
  [][\A pid \in RecordPids, updates \in RecordUpdates :
       RecordUpsert(pid, updates) =>
         UpsertProcess(processes', pid, updates) = processes']_vars

\* an upsert has merged usage figures and a sessionId into a tracked record
UpsertMergedIntoTracked ==
  /\ lastCall.op = "upsert"
  /\ lastCall.tracked
  /\ \E i \in 1..Len(processes) :
       /\ processes[i].pid = lastCall.pid
       /\ processes[i].cpuUsage = 5
       /\ processes[i].sessionId \in Sessions

\* C15: upsert on a pid not tracked adds a record with status Idle, cpuUsage
\* 0, memoryUsage 0 and sessionId 'pid-<pid>', each replaced only by the
\* value the partial gives for it
UpsertCreatesIdleRecord ==
  [][\A pid \in RecordPids, updates \in RecordUpdates :
       (~Tracked(pid) /\ RecordUpsert(pid, updates)) =>
         LET new == processes'[Len(processes')]
         IN /\ Len(processes') = Len(processes) + 1
            /\ new.pid = pid
            /\ new.status = Supplied(updates, "status", IDLE)
            /\ new.cpuUsage = Supplied(updates, "cpuUsage", 0)
            /\ new.memoryUsage = Supplied(updates, "memoryUsage", 0)
            /\ new.sessionId =
                 Supplied(updates, "sessionId", "pid-" \o ToString(pid))]_vars

\* an upsert that names a status only has created a record: Running, under
\* the generated sessionId, with usage 0
CreatedFromStatusOnly ==
  /\ lastCall.op = "upsert"
  /\ ~lastCall.tracked
  /\ \E i \in 1..Len(processes) :
       /\ processes[i].pid = lastCall.pid
       /\ processes[i].status = RUNNING
       /\ IsSynthetic(processes[i].sessionId)
       /\ processes[i].cpuUsage = 0 /\ processes[i].memoryUsage = 0

StoreCalls ==
  {"upsert", "updateStatus", "associate", "updateMetrics", "remove"}

\* C16, as stated: every call of upsert, updateStatusBySessionId,
\* associateSession, updateMetrics or remove that finds its record emits one
\* state:changed
EveryCallNotifiesOnce ==
  [][(lastCall'.op \in StoreCalls /\ lastCall'.tracked) =>
       Count(emitted', "state:changed") = 1]_vars

\* C16: a call of upsert, associateSession or remove that finds its record
\* emits one state:changed; a call of updateStatusBySessionId or
\* updateMetrics that finds its record emits one if it changes the record
\* and none if it does not
ChangingCallNotifiesOnce ==
  [][(lastCall'.op \in StoreCalls /\ lastCall'.tracked) =>
       Count(emitted', "state:changed") =
         (IF /\ lastCall'.op \in {"updateStatus", "updateMetrics"}
             /\ processes' = processes
            THEN 0 ELSE 1)]_vars

\* a status was written to a record that had it already: nothing was emitted
SameStatusWasSilent ==
  /\ lastCall.op = "updateStatus"
  /\ lastCall.tracked
  /\ emitted = <<>>

\* C17: the payload of every state:changed is the list of the records the
\* store holds once the call has emitted it
SnapshotIsTheStore ==
  [][\A k \in 1..Len(emitted') :
       emitted'[k].type = "state:changed" =>
         emitted'[k].processes = processes']_vars

\* a removal has emitted the snapshot of a store that still holds a record
RemovalSnapshotEmitted ==
  /\ lastCall.op = "remove"
  /\ lastCall.tracked
  /\ Count(emitted, "state:changed") = 1
  /\ processes # <<>>


RemovalsOf(notes, pid) ==
  Cardinality({k \in 1..Len(notes) : /\ notes[k].type = "process:removed"
                                     /\ notes[k].pid = pid})

\* C12: whichever of the scan and the liveness passes come to remove a pid
\* they found dead, a step emits one removal notification for the pid if it
\* deletes the pid's record and none if the record is gone already
DeadPidNotifiedOnce ==
  [][\A pid \in RealPids :
       RemovalsOf(emitted', pid) =
         (IF Tracked(pid) /\ pid \notin Pids(processes') THEN 1 ELSE 0)]_vars

\* a scan has just removed a pid that a liveness pass, still probing, holds
\* in its list of dead pids
ScanRemovedWhatLivenessFoundDead ==
  /\ lastRemoved.by = "scan"
  /\ \E pid \in lastRemoved.pids :
       /\ RemovalsOf(emitted, pid) = 1
       /\ \/ /\ livePc = "probing"
             /\ \E k \in 1..Len(liveDead) : liveDead[k] = pid
          \/ /\ overlap.pc = "probing"
             /\ \E k \in 1..Len(overlap.dead) : overlap.dead[k] = pid


InFlight(pid) == \E k \in 1..Len(lookups) : lookups[k].pid = pid

\* C18: no pid has two lookups in flight; a getWorkingDir call for a pid
\* with a lookup in flight starts none and returns the cached directory, and
\* so does getWorkingDirs for such a pid
OneLookupPerPid ==
  [][/\ \A pid \in RealPids :
          Cardinality({k \in 1..Len(lookups') : lookups'[k].pid = pid}) <= 1
     /\ \A pid \in RealPids :
          (InFlight(pid) /\ DirectCall(pid)) =>
            /\ lookups' = lookups
            /\ lastCall'.dir = CachedDir(Resolver, pid)
     /\ \A pid \in RealPids :
          (InFlight(pid) /\ Tracked(pid) /\ DirsStart) =>
            /\ lookups'[1] = lookups[1]
            /\ \E k \in 1..Len(cycle'.dirs) :
                 cycle'.dirs[k] = [pid |-> pid, dir |-> CachedDir(Resolver, pid)]]_vars

\* a call made while a lookup for its pid was in flight has returned the
\* directory cached before, and the lookup is still in flight
InFlightCallReturnedCached ==
  /\ lastCall.op = "getWorkingDir"
  /\ lastCall.how = "inflight"
  /\ lastCall.dir \in Dirs
  /\ InFlight(lastCall.pid)

\* C19: when the lookup of a pid with a cached directory fails, times out or
\* rejects, getWorkingDir returns the cached directory and the cache entry
\* keeps it
FailedLookupKeepsCached ==
  [][\A k \in 1..Len(lookups), result \in {NoDir, Throws} :
       (/\ lookups[k].pid \in DOMAIN cache
        /\ cache[lookups[k].pid].dir \in Dirs
        /\ LookupDone(k, result))
       => /\ lastCall'.dir = cache[lookups[k].pid].dir
          /\ lookups[k].pid \in DOMAIN cache'
          /\ cache'[lookups[k].pid].dir = cache[lookups[k].pid].dir]_vars

BatchRead == lastCall'.op = "processNewLines" /\ Len(reads') < Len(reads)

\* C21: a batch read for one change notification that holds an interrupt
\* entry emits exactly one interrupt event, and a batch without one emits none
BatchEmitsOneInterrupt ==
  [][BatchRead =>
       IF \E i \in 1..Len(lastCall'.lines) : Interrupts(lastCall'.lines[i])
         THEN Len(logged') = 1
         ELSE logged' = <<>>]_vars


\* the step is a call of watchLogFile that registered a watcher
Attached(sessionId) ==
  /\ lastCall'.op = "watchLogFile"
  /\ lastCall'.did = "attached"
  /\ sessionId \in DOMAIN tails' \ DOMAIN tails

\* the step is a change notification that opens a read
ReadOpened(sessionId) ==
  /\ lastCall'.op = "change"
  /\ lastCall'.sessionId = sessionId
  /\ Len(reads') > Len(reads)

\* C22: an attach examines at most the last 50 non-empty lines, emits at
\* most one interrupt event and records the size of the file as the offset,
\* and no later change notification reads a line that was in the file at
\* the attach
AttachSkipsWhatWasThere ==
  [][\A sessionId \in TailSessions :
       /\ Attached(sessionId) =>
            /\ Len(lastCall'.lines) <= BACKFILL_LINES
            /\ Len(logged') <= 1
            /\ tails'[sessionId].lastPosition = Len(Content(lastCall'.path))
       /\ ReadOpened(sessionId) =>
            reads'[Len(reads')].from >= tails[sessionId].startPosition]_vars


\* the step is a change notification for the session's watcher
Notified(sessionId) ==
  /\ lastCall'.op = "change"
  /\ lastCall'.sessionId = sessionId

\* C23: a change notification that finds the file smaller than the stored
\* offset reads from zero to the current size, and the current size is the
\* offset once the read is done; one that finds the size equal to the offset
\* reads nothing and leaves the offset
TruncationRestartsAtZero ==
  [][/\ \A sessionId \in TailSessions :
          Notified(sessionId) =>
            LET logPath == tails[sessionId].path
                size == Len(Content(logPath))
                offset == tails[sessionId].lastPosition
            IN /\ size < offset =>
                    \/ tails'[sessionId].lastPosition = size
                    \/ reads' = Append(reads, [sessionId |-> sessionId,
                                               path |-> logPath,
                                               from |-> 0, to |-> size])
               /\ size = offset => (reads' = reads /\ tails' = tails)
     /\ (BatchRead /\ lastCall'.sessionId \in DOMAIN tails) =>
          tails'[lastCall'.sessionId].lastPosition = lastCall'.to]_vars


Malformed(line) == Trimmed(line) /\ ~Parses(line)

\* C24: in a batch and in the backfill window, an interrupt entry is
\* detected whatever malformed lines stand before or after it, and the
\* offset advances to the end of a batch that holds malformed lines
MalformedLinesAreSkipped ==
  [][/\ BatchRead =>
          LET lines == lastCall'.lines
              sessionId == lastCall'.sessionId
          IN (\E i \in 1..Len(lines) : Malformed(lines[i])) =>
               /\ Len(logged') =
                    Cardinality({j \in 1..Len(lines) : Interrupts(lines[j])})
               /\ sessionId \in DOMAIN tails =>
                    tails'[sessionId].lastPosition = lastCall'.to
     /\ \A sessionId \in TailSessions :
          Attached(sessionId) =>
            LET lines == lastCall'.lines
            IN (/\ \E i \in 1..Len(lines) : Malformed(lines[i])
                /\ \E j \in 1..Len(lines) : Interrupts(lines[j]))
               => logged' = <<LogEvent(sessionId)>>]_vars

\* a batch with a malformed line before an interrupt entry has been read:
\* the interrupt was emitted and the offset is the end of the batch
InterruptAfterMalformedDetected ==
  /\ lastCall.op = "processNewLines"
  /\ \E i, j \in 1..Len(lastCall.lines) :
       /\ i < j
       /\ Malformed(lastCall.lines[i])
       /\ Interrupts(lastCall.lines[j])
  /\ logged # <<>>
  /\ lastCall.sessionId \in DOMAIN tails
  /\ tails[lastCall.sessionId].lastPosition = lastCall.to
  /\ lastCall.to = Len(Content(lastCall.path))


\* the path is the directory or lies in the tree under it
Within(path, dir) ==
  /\ StartsWith(path, dir)
  /\ Len(path) = Len(dir) \/ path[Len(dir) + 1] = "/"

\* C25: an attach for a path that resolves to a place outside the tree of
\* the allow-listed directory, or to something that is not a regular file,
\* registers no watcher, opens no read and emits no event
UnsafePathIsIgnored ==
  [][(/\ lastCall'.op = "watchLogFile"
      /\ \/ ~Within(RealPath(lastCall'.path), SafeDir)
         \/ FileType(RealPath(lastCall'.path)) # "file")
     => /\ tails' = tails
        /\ reads' = reads
        /\ logged' = <<>>
        /\ processes' = processes]_vars


\* the session the hooks of the trace named
Named(sessionId) ==
  /\ sessionId \in Sessions
  /\ lastSignal[sessionId] # "none"
  /\ \A other \in Sessions \ {sessionId} : lastSignal[other] = "none"

\* C26: along the trace the store holds one record for the process: Idle
\* under a synthetic sessionId after the first scan, Idle under the hook's
\* sessionId after session_start, Running after request_start, Idle after
\* the log interrupt and after the second scan; the liveness pass that finds
\* the process dead leaves no record and emits one removal notification,
\* which carries the hook's sessionId
EndToEndTrace ==
  /\ inputs \in 1..5 =>
       /\ Len(processes) = 1
       /\ processes[1].pid \in RealPids
       /\ buried = {}
       /\ inputs = 1 => /\ processes[1].sessionId = SynId(processes[1].pid)
                        /\ processes[1].status = IDLE
       /\ inputs > 1 => Named(processes[1].sessionId)
       /\ inputs \in {2, 4, 5} => processes[1].status = IDLE
       /\ inputs = 3 => processes[1].status = RUNNING
  /\ inputs = TraceEnd =>
       /\ processes = <<>>
       /\ Count(emitted, "process:removed") = 1
       /\ \E k \in 1..Len(emitted) :
            /\ emitted[k].type = "process:removed"
            /\ Named(emitted[k].sessionId)
            /\ buried = {emitted[k].pid}

\* the trace has run to its end: the liveness pass removed the record
TraceCompleted ==
  /\ inputs = TraceEnd
  /\ lastRemoved.by = "liveness"
  /\ processes = <<>>


\* the step changes the status or the sessionId of a record that is in the
\* store before and after it
SurvivorChanged ==
  \E i \in 1..Len(processes), j \in 1..Len(processes') :
    /\ processes[i].pid = processes'[j].pid
    /\ \/ processes[i].status # processes'[j].status
       \/ processes[i].sessionId # processes'[j].sessionId

\* C27: a step that changes the status or the sessionId of a record that
\* survives it is the handling of a hook or of a log interrupt, never a step
\* of the scan, of the liveness pass or of the working-directory refresh
LoopsKeepStatusAndSession ==
  [][SurvivorChanged =>
       \/ \E event \in LoopHookEvents : LoopHook(event)
       \/ \E sessionId \in Sessions : LoopInterrupt(sessionId)]_vars

\* a scan has removed a record and left the Running record of a hook's
\* session as it was
ScanKeptRunningSession ==
  /\ lastRemoved.by = "scan"
  /\ \E i \in 1..Len(processes) :
       /\ processes[i].status = RUNNING
       /\ processes[i].sessionId \in Sessions


\* the step is a POST to the hook endpoint
Posted == lastCall'.op = "post" /\ inputs' = inputs + 1

\* the POST is answered 400, and the store, the watchers and the pending
\* retries are as before, with no notification
Refused ==
  /\ lastCall'.status = 400
  /\ processes' = processes
  /\ watchers' = watchers
  /\ retry' = retry
  /\ emitted' = <<>>

\* C28 as stated: a POST whose type is not one of the three names, or
\* whose body has no session_id, is refused, and every other POST is handed
\* to the Coordinator
OtherTypeIsRefused ==
  [][Posted =>
       IF lastCall'.type \notin HookEventType \/ lastCall'.sessionId = NoSession
         THEN Refused
         ELSE lastCall'.status = 200]_vars

\* C28: a POST whose type, in lower case, is not one of the three names, or
\* whose body has no session_id, is refused, and every other POST is handed
\* to the Coordinator
OtherLowerCasedTypeIsRefused ==
  [][Posted =>
       IF \/ ToLowerCase(lastCall'.type) \notin HookEventType
          \/ lastCall'.sessionId = NoSession
         THEN Refused
         ELSE lastCall'.status = 200]_vars

\* a POST of an unknown type has been refused while the store held a record
UnknownTypeWasRefused ==
  /\ lastCall.op = "post"
  /\ lastCall.type = "session_end"
  /\ lastCall.sessionId \in Sessions
  /\ lastCall.status = 400
  /\ processes # <<>>

-----------------------------------------------------------------------------
\* upsertProcess called with partials of every kind while the clock runs

\* a time before the store was made
LongAgo == ClockEpoch - 1

UpsertPartials ==
  {NoUpdates}
    \cup [sessionId : {"abc"}]
    \cup [status : {RUNNING}]
    \cup [cpuUsage : {5}]
    \cup [workingDir : {"/a"}]
    \cup [displayName : {NoName, "tab"}]
    \cup [lastActiveTime : {LongAgo}]
    \cup [startTime : {LongAgo}, firstSeenAt : {LongAgo}]

UpsertNext ==
  \/ \E pid \in RecordPids, updates \in UpsertPartials :
       RecordUpsert(pid, updates)
  \/ Free /\ Tick

UpsertSpec == StoreInit /\ [][UpsertNext]_vars

\* C29: upsert on a tracked pid gives the fields the partial names the
\* values of the partial, sets lastActiveTime to the time of the call, and
\* leaves every other field of the record, every other record and the order
\* of the records as they were
UpsertKeepsTheRest ==
  [][\A pid \in RecordPids, updates \in UpsertPartials :
       (Tracked(pid) /\ RecordUpsert(pid, updates)) =>
         LET i == GetProcess(processes, pid)
         IN /\ Len(processes') = Len(processes)
            /\ \A j \in 1..Len(processes) :
                 j # i => processes'[j] = processes[j]
            /\ DOMAIN processes'[i] = DOMAIN processes[i]
            /\ \A f \in DOMAIN processes[i] :
                 IF f = "lastActiveTime" THEN processes'[i][f] = now
                 ELSE IF f \notin DOMAIN updates
                   THEN processes'[i][f] = processes[i][f]
                 ELSE IF f = "displayName" /\ updates[f] = NoName
                   THEN processes'[i][f] = DisplayName(processes'[i].sessionId)
                 ELSE processes'[i][f] = updates[f]]_vars

\* an upsert has acted on a tracked record that carries a session, the
\* running status and a directory and was made before its last activity
UpsertLeftOlderFields ==
  /\ lastCall.op = "upsert"
  /\ lastCall.tracked
  /\ \E i \in 1..Len(processes) :
       /\ processes[i].pid = lastCall.pid
       /\ processes[i].sessionId = "abc"
       /\ processes[i].status = RUNNING
       /\ processes[i].workingDir = "/a"
       /\ processes[i].firstSeenAt < processes[i].lastActiveTime
       /\ processes[i].lastActiveTime = now

\* the step runs updateWorkingDirs to its end, cleanupCache included
CycleEnds ==
  /\ \/ cycle.pc = "waiting"
     \/ DirsStart /\ \E i \in 1..Len(processes) :
                       processes[i].pid < PlaceholderFloor
  /\ cycle'.pc = "idle"

\* C30: getWorkingDir for a pid whose cache entry is younger than CACHE_TTL
\* returns the directory of the entry and starts no lookup; the cleanup at
\* the end of a refresh cycle deletes the cache entries older than twice
\* CACHE_TTL and keeps every other entry as it is
FreshIsAnsweredOldIsSwept ==
  [][/\ \A pid \in RealPids :
          (/\ pid \in DOMAIN cache
           /\ now - cache[pid].timestamp < CACHE_TTL
           /\ DirectCall(pid)) =>
            /\ lastCall'.how = "fresh"
            /\ lastCall'.dir = cache[pid].dir
            /\ lookups' = lookups
            /\ resolving' = resolving
            /\ cache' = cache
     /\ CycleEnds =>
          \A pid \in RealPids :
            IF /\ cycle.pc = "waiting"
               /\ lastCall'.pid = pid
               /\ lastCall'.how # "threw"
              THEN /\ pid \in DOMAIN cache'
                   /\ cache'[pid].timestamp = now
            ELSE IF /\ pid \in DOMAIN cache
                    /\ now - cache[pid].timestamp <= CACHE_TTL * 2
              THEN /\ pid \in DOMAIN cache'
                   /\ cache'[pid] = cache[pid]
            ELSE pid \notin DOMAIN cache']_vars

\* the cleanup at the end of a refresh cycle has deleted an entry and kept
\* one that is exactly twice CACHE_TTL old
CleanupSweptOldKeptYoung ==
  /\ lastCall.op \in {"updateWorkingDirs", "lookupDone"}
  /\ cycle.pc = "idle"
  /\ lastCall.swept # {}
  /\ \E pid \in DOMAIN cache : now - cache[pid].timestamp = CACHE_TTL * 2

-----------------------------------------------------------------------------
\* The scan and the liveness pass removing records while the log tailer
\* watches their sessions

\* the Coordinator's 'process:removed' listener, run for each removal
\* notification of a step in the order of emission
RECURSIVE StopRemoved(_, _)
StopRemoved(t, notes) ==
  IF notes = <<>> THEN t
  ELSE StopRemoved(IF Head(notes).type = "process:removed"
                     THEN StopWatching(t, Head(notes).sessionId)
                     ELSE t,
                   Tail(notes))

\* the sessionIds of the removal notifications among `notes`
RemovedSessions(notes) ==
  {notes[k].sessionId : k \in {j \in 1..Len(notes) :
                                 notes[j].type = "process:removed"}}

\* the offsets the watchers of the sessions in S have stored
Offsets(t, S) == {t[s].lastPosition : s \in S \cap DOMAIN t}

\* what a removing step leaves of the store and of the tailer
Torn(op, st, notes) ==
  /\ TailInput
  /\ processes' = st.processes
  /\ emitted' = notes
  /\ tails' = StopRemoved(tails, notes)
  /\ watchers' = DOMAIN tails'
  /\ logged' = <<>>
  /\ lastCall' = [op |-> op, sessions |-> RemovedSessions(notes),
                  offsets |-> Offsets(tails, RemovedSessions(notes))]
  /\ UNCHANGED <<disk, reads>>
  /\ TailElsewhere

\* a scan cycle whose process table lists the pids of `lines`
TeardownScan(lines) ==
  Torn("scan", ApplyScan(Store, lines), ApplyScanEmitted(Store, lines))

\* a liveness pass that found the pids of `deadPids` dead
TeardownLiveness(deadPids) ==
  Torn("liveness", RemoveDead(Store, deadPids),
       RemoveDeadEmitted(Store, deadPids))

TeardownNext ==
  \/ \E sessionId \in TailSessions : TailHook(sessionId)
  \/ \E path \in {Inside}, chunk \in {<<UserText>>, <<UserInterrupt>>} :
       TailWrite(path, chunk)
  \/ \E sessionId \in TailSessions, logPath \in {Inside, Absent} :
       TailAttach(sessionId, logPath)
  \/ \E sessionId \in TailSessions : TailChange(sessionId)
  \/ \E k \in 1..MaxReads : TailRead(k)
  \/ \E S \in SUBSET RealPids : \E lines \in Listings(S) : TeardownScan(lines)
  \/ \E S \in SUBSET RealPids : \E deadPids \in Listings(S) :
       TeardownLiveness(deadPids)

TeardownSpec == StoreInit /\ [][TeardownNext]_vars

\* C31: a step that removes a record from the store leaves no watcher and no
\* stored offset under the sessionId the record had
RemovalTearsDownWatcher ==
  [][\A i \in 1..Len(processes) :
       processes[i].pid \notin Pids(processes') =>
         /\ processes[i].sessionId \notin DOMAIN tails'
         /\ processes[i].sessionId \notin watchers']_vars

\* a scan or a liveness pass has removed the record of a session whose
\* watcher had stored an offset past the start of its file
WatcherWithOffsetTornDown ==
  /\ lastCall.op \in {"scan", "liveness"}
  /\ "abc" \in lastCall.sessions
  /\ \E offset \in lastCall.offsets : offset > 0
  /\ "abc" \notin DOMAIN tails

\* lookup k belongs to a refresh cycle, which starts lookups for tracked pids
\* only, and the record of its pid is gone
Abandoned(k) ==
  /\ lookups[k].batch
  /\ lookups[k].pid \notin Pids(processes)

-----------------------------------------------------------------------------
\* Hooks arriving while scanProcesses awaits the process table.  The history
\* kept in lastCall is the set of the pids whose records a hook created since
\* the table was sampled, each for a process alive since then, and whether
\* the query of the cycle under way failed.

CreatedSinceSample == IF lastCall.op = "none" THEN {} ELSE lastCall.created

QueryFailed == lastCall.op # "none" /\ lastCall.failed

SampleTold(op, created, notes) ==
  /\ emitted' = notes
  /\ lastCall' = [op |-> op, created |-> created,
                  failed |-> IF op = "sample" THEN FALSE
                             ELSE IF op = "failed" THEN TRUE
                             ELSE QueryFailed]
  /\ buried' = buried \cup (Pids(processes) \ Pids(processes'))
  /\ UNCHANGED <<overlap, resolverVars, tailVars, lifeVars>>

SampleInput == inputs < MaxSampleInputs /\ inputs' = inputs + 1

SampleHook(event) ==
  /\ SampleInput
  /\ ReceiveHook(event)
  /\ SampleTold("hook",
                IF /\ scanPc = "querying"
                   /\ event.pid \in alive
                   /\ event.pid \notin Pids(processes)
                  THEN CreatedSinceSample \cup {event.pid}
                  ELSE CreatedSinceSample,
                HandleHookEmitted(Store, event, now))

SampleSpawn(pid) ==
  SampleInput /\ OsSpawn(pid) /\ SampleTold("spawn", CreatedSinceSample, <<>>)

SampleExit(pid) ==
  /\ SampleInput
  /\ OsExit(pid)
  /\ SampleTold("exit", CreatedSinceSample \ {pid}, <<>>)

\* the query of this cycle succeeds
SampleScanStart ==
  /\ ScanStart
  /\ scanResult' = alive
  /\ SampleTold("sample", {}, <<>>)
  /\ UNCHANGED inputs

SampleScanComplete ==
  /\ ScanComplete
  /\ \E lines \in Listings(scanResult) :
       /\ processes' = ApplyScan(Store, lines).processes
       /\ SampleTold("scan", CreatedSinceSample, ApplyScanEmitted(Store, lines))
  /\ UNCHANGED inputs

SampleNext ==
  \/ \E event \in PidHookEvents : SampleHook(event)
  \/ \E pid \in RealPids : SampleSpawn(pid)
  \/ \E pid \in RealPids : SampleExit(pid)
  \/ SampleScanStart
  \/ SampleScanComplete

SampleSpec == Init /\ [][SampleNext]_vars

\* C33: the step that completes a scan cycle removes no record that a hook
\* created, for the pid of a process alive ever since, after the cycle
\* sampled the process table
HookRecordSurvivesScan ==
  [][(scanPc = "querying" /\ scanPc' = "idle") =>
       \A pid \in CreatedSinceSample \cap Pids(processes) :
         pid \in Pids(processes')]_vars

\* the query of this cycle fails: safeExec rejects on a spawn error and
\* scanClaudeProcesses catches, or ps exits with a code other than 0 and
\* getProcessList returns []; scanProcesses is handed the empty list
SampleScanFail ==
  /\ ScanStart
  /\ scanResult' = {}
  /\ SampleTold("failed", {}, <<>>)
  /\ UNCHANGED inputs

FailNext ==
  \/ SampleNext
  \/ SampleScanFail

FailSpec == Init /\ [][FailNext]_vars

\* C34: the step that completes a scan cycle whose query failed leaves the
\* records as they were
FailedQueryChangesNothing ==
  [][(scanPc = "querying" /\ scanPc' = "idle" /\ QueryFailed) =>
       processes' = processes]_vars

(***************************************************************************)
(* Coordinator.start and Coordinator.stop: the scan timer, the refresh     *)
(* timer, the liveness interval and the retry timers of startWatchingLogs  *)
(***************************************************************************)

MaxLifeInputs == 4

LifeInput == inputs < MaxLifeInputs /\ inputs' = inputs + 1

\* what a step of the store's loops and hooks leaves alone
LifeQuiet ==
  /\ emitted' = <<>>
  /\ lastCall' = NoCall
  /\ UNCHANGED <<buried, overlap, resolverVars, tailVars, sockets>>

\* what a step of the refresh cycle leaves alone
LifeRefresh ==
  /\ lastRemoved' = NoneRemoved
  /\ UNCHANGED <<watchers, retry, alive, now, scanResult, scanPc, liveTodo,
                 liveDead, livePc, lastSignal, overlap, buried, tailVars,
                 sockets>>

\* session hooks that name a pid, with a transcript that is not there yet
\* or one that is
LifeHooks ==
  {event \in HookEvents :
     /\ event.type = SESSION_START
     /\ event.pid # NoPid
     /\ event.log \in {"missing", "quiet"}}

\* Coordinator.start up to the await of the first scan: the liveness
\* interval is set and scanProcesses samples the process table
LifeStart ==
  /\ timers.phase = "constructed"
  /\ ~timers.stopped
  /\ timers' = [timers EXCEPT !.phase = "starting",
                              !.pidCheckInterval = TRUE]
  /\ ScanStart
  /\ UNCHANGED inputs
  /\ LifeQuiet

\* a hook is posted to a running Coordinator
LifeHook(event) ==
  /\ timers.phase # "constructed"
  /\ ~timers.stopped
  /\ LifeInput
  /\ ReceiveHook(event)
  /\ UNCHANGED timers
  /\ LifeQuiet

LifeSpawn(pid) ==
  LifeInput /\ OsSpawn(pid) /\ UNCHANGED timers /\ LifeQuiet

LifeExit(pid) ==
  LifeInput /\ OsExit(pid) /\ UNCHANGED timers /\ LifeQuiet

\* the scan timer fires
LifeScanFire ==
  /\ timers.scanTimer = "pending"
  /\ LifeInput
  /\ timers' = [timers EXCEPT !.scanTimer = "none"]
  /\ ScanStart
  /\ LifeQuiet

\* scanProcesses returns: scan() sets the scan timer again, and the first
\* time start() goes on to set the refresh timer
LifeScanComplete ==
  /\ ScanComplete
  /\ timers' = [timers EXCEPT
                  !.scanTimer = "pending",
                  !.phase = "started",
                  !.dirUpdateTimer =
                     IF timers.phase = "starting" THEN "pending" ELSE @]
  /\ UNCHANGED inputs
  /\ LifeQuiet

\* the refresh timer fires; updateDirs sets it again when updateWorkingDirs
\* returns
LifeDirsFire ==
  /\ timers.dirUpdateTimer = "pending"
  /\ LifeInput
  /\ UpdateWorkingDirs
  /\ timers' = [timers EXCEPT
                  !.dirUpdateTimer =
                     IF cycle'.pc = "idle" THEN "pending" ELSE "none"]
  /\ LifeRefresh

LifeLookupDone(k, result) ==
  /\ LookupSettles(k, result)
  /\ timers' = [timers EXCEPT
                  !.dirUpdateTimer =
                     IF cycle.pc = "waiting" /\ cycle'.pc = "idle"
                       THEN "pending" ELSE @]
  /\ UNCHANGED inputs
  /\ LifeRefresh

\* the liveness interval fires
LifeLiveFire ==
  /\ timers.pidCheckInterval
  /\ LifeInput
  /\ LiveStart
  /\ UNCHANGED timers
  /\ LifeQuiet

LifeLiveProbe ==
  LiveProbe /\ UNCHANGED <<timers, inputs>> /\ LifeQuiet

\* a retry timer of startWatchingLogs fires
LifeRetry(sessionId, log) ==
  RetryAttach(sessionId, log) /\ UNCHANGED <<timers, inputs>> /\ LifeQuiet

\* Coordinator.stop: both timers and the liveness interval are cleared;
\* logWatcher.stopAll runs up to its first await
LifeStop ==
  /\ timers.phase # "constructed"
  /\ ~timers.stopped
  /\ timers' = [timers EXCEPT !.stopped = TRUE,
                              !.scanTimer = "none",
                              !.dirUpdateTimer = "none",
                              !.pidCheckInterval = FALSE,
                              !.stoppingAll = (watchers # {})]
  /\ lastRemoved' = NoneRemoved
  /\ UNCHANGED <<processes, watchers, retry, alive, now, scanResult, scanPc,
                 liveTodo, liveDead, livePc, lastSignal, inputs>>
  /\ LifeQuiet

\* stopAll after the close of its last watcher: watchers.clear()
LifeStopAllDone ==
  /\ timers.stoppingAll
  /\ timers' = [timers EXCEPT !.stoppingAll = FALSE]
  /\ watchers' = {}
  /\ lastRemoved' = NoneRemoved
  /\ UNCHANGED <<processes, retry, alive, now, scanResult, scanPc,
                 liveTodo, liveDead, livePc, lastSignal, inputs>>
  /\ LifeQuiet

LifeNext ==
  \/ LifeStart
  \/ \E event \in LifeHooks : LifeHook(event)
  \/ \E pid \in RealPids : LifeSpawn(pid)
  \/ \E pid \in RealPids : LifeExit(pid)
  \/ LifeScanFire
  \/ LifeScanComplete
  \/ LifeDirsFire
  \/ \E k \in 1..Len(lookups), result \in LookupResults :
       LifeLookupDone(k, result)
  \/ LifeLiveFire
  \/ LifeLiveProbe
  \/ \E sessionId \in Sessions, log \in {"missing", "quiet"} :
       LifeRetry(sessionId, log)
  \/ LifeStop
  \/ LifeStopAllDone

LifeSpec == StoreInit /\ [][LifeNext]_vars

\* C35: once stop() has returned, no scan cycle, no refresh cycle, no
\* liveness pass and no deferred log-watcher attachment starts any more
StoppedStartsNothing ==
  [][timers.stopped =>
       ~ \/ LifeScanFire
         \/ LifeDirsFire
         \/ LifeLiveFire
         \/ \E sessionId \in Sessions, log \in {"missing", "quiet"} :
              LifeRetry(sessionId, log)]_vars


(***************************************************************************)
(* Tailing a file that only grows                                          *)
(***************************************************************************)

\* the steps of TailSpec without truncation and without the stop of a
\* watcher: a session's watcher, once attached, stays
AppendNext ==
  \/ \E sessionId \in TailSessions : TailHook(sessionId)
  \/ \E path \in RegularFiles, chunk \in Chunks : TailWrite(path, chunk)
  \/ \E sessionId \in TailSessions, logPath \in LogPaths :
       TailAttach(sessionId, logPath)
  \/ \E sessionId \in TailSessions : TailChange(sessionId)
  \/ \E k \in 1..MaxReads : TailRead(k)

AppendSpec == StoreInit /\ [][AppendNext]_vars

\* C36: while a file only grows, a batch that processNewLines hands on
\* starts at the stored offset or after it, so that no line is processed by
\* two batches and no interrupt line yields two events, and the stored
\* offset never moves backwards
EachLineOnce ==
  [][\A sessionId \in DOMAIN tails :
       /\ (lastCall'.op = "processNewLines"
             /\ lastCall'.sessionId = sessionId)
            => lastCall'.from >= tails[sessionId].lastPosition
       /\ sessionId \in DOMAIN tails'
            => tails'[sessionId].lastPosition
                 >= tails[sessionId].lastPosition]_vars


(***************************************************************************)
(* Watchers and the sessions of the tracked records                        *)
(***************************************************************************)

SessionIds(procs) == {procs[i].sessionId : i \in 1..Len(procs)}

\* C37: every active log watcher is keyed by the sessionId of some tracked
\* record
WatchersHaveSessions == watchers \subseteq SessionIds(processes)


(***************************************************************************)
(* WebSocket connections and their listeners on the Coordinator            *)
(***************************************************************************)

MaxConnections == 4

\* the functions a connection handler creates: the three named handlers and
\* the arrow function that wraps handleProcessRemove
Listener(ws, fn) == [ws |-> ws, fn |-> fn]

\* EventEmitter.on
On(listeners, event, listener) ==
  [listeners EXCEPT ![event] = Append(@, listener)]

\* the place of the most recently added instance of a listener, 0 if none
RECURSIVE LastIndexOf(_, _, _)
LastIndexOf(list, listener, i) ==
  IF i = 0 THEN 0
  ELSE IF list[i] = listener THEN i
  ELSE LastIndexOf(list, listener, i - 1)

\* EventEmitter.off: removes the most recently added instance of that very
\* function, and nothing if it was never added
Off(listeners, event, listener) ==
  LET list == listeners[event]
      i == LastIndexOf(list, listener, Len(list))
  IN IF i = 0 THEN listeners
     ELSE [listeners EXCEPT
             ![event] = SubSeq(list, 1, i - 1) \o SubSeq(list, i + 1, Len(list))]

SocketElsewhere ==
  /\ emitted' = <<>>
  /\ lastRemoved' = NoneRemoved
  /\ UNCHANGED <<processes, watchers, retry, alive, now, scanResult, scanPc,
                 liveTodo, liveDead, livePc, lastSignal, inputs, buried,
                 overlap, resolverVars, tailVars, timers>>

\* wss.on('connection'): a new connection registers its three listeners
SocketConnect ==
  LET ws == sockets.made + 1
  IN /\ sockets.made < MaxConnections
     /\ sockets' =
          [made |-> ws,
           open |-> sockets.open \cup {ws},
           listeners |->
             On(On(On(sockets.listeners,
                      "update", Listener(ws, "handleUpdate")),
                   "session:updated", Listener(ws, "handleProcessUpdate")),
                "session:removed", Listener(ws, "arrow"))]
     /\ lastCall' = [op |-> "connection", ws |-> ws]
     /\ SocketElsewhere

\* ws.on('close')
SocketClose(ws) ==
  /\ ws \in sockets.open
  /\ sockets' =
       [sockets EXCEPT
          !.open = @ \ {ws},
          !.listeners =
             Off(Off(Off(@, "update", Listener(ws, "handleUpdate")),
                     "session:updated", Listener(ws, "handleProcessUpdate")),
                 "session:removed", Listener(ws, "handleProcessRemove"))]
  /\ lastCall' = [op |-> "close", ws |-> ws]
  /\ SocketElsewhere

\* the Coordinator emits one of the events: every listener is called, and
\* sends if its connection is open
SocketEmit(event) ==
  /\ lastCall' = [op |-> "emit", event |-> event,
                  called |-> sockets.listeners[event],
                  sent |-> SelectSeq(sockets.listeners[event],
                                     LAMBDA l : l.ws \in sockets.open)]
  /\ UNCHANGED sockets
  /\ SocketElsewhere

SocketNext ==
  \/ SocketConnect
  \/ \E ws \in 1..MaxConnections : SocketClose(ws)
  \/ \E event \in SocketEvents : SocketEmit(event)

SocketSpec == StoreInit /\ [][SocketNext]_vars

ListenerCount ==
  Len(sockets.listeners["update"]) + Len(sockets.listeners["session:updated"])
    + Len(sockets.listeners["session:removed"])

\* C38: every listener on the Coordinator belongs to an open connection, and
\* there are at most three listeners per open connection
ClosedLeavesNoListener ==
  /\ \A event \in SocketEvents :
       \A i \in 1..Len(sockets.listeners[event]) :
         sockets.listeners[event][i].ws \in sockets.open
  /\ ListenerCount <= 3 * Cardinality(sockets.open)


(***************************************************************************)
(* Lookups in flight come to an end                                        *)
(***************************************************************************)

MaxLookupInputs == 3

\* the lookup in flight for pid settles: resolveWorkingDir resolves with a
\* directory, with null (readlink fails, lsof fails or its 2 s timeout
\* fires) or rejects
PidSettles(pid) ==
  \E k \in 1..Len(lookups), result \in LookupResults :
    lookups[k].pid = pid /\ LookupDone(k, result)

LookupNext ==
  \/ \E pid \in RealPids : inputs < MaxLookupInputs /\ DirUpsert(pid)
  \/ \E pid \in RealPids : inputs < MaxLookupInputs /\ DirectCall(pid)
  \/ inputs < MaxLookupInputs /\ DirsStart
  \/ \E pid \in RealPids : PidSettles(pid)
  \/ DirWait

\* no lookup stays in flight for ever: the 2 s timeout settles it at the
\* latest
LookupSpec ==
  /\ StoreInit
  /\ [][LookupNext]_vars
  /\ \A pid \in RealPids : WF_vars(PidSettles(pid))

\* C39: every lookup in flight comes to an end and the pid's in-flight mark
\* is then cleared; a getWorkingDir for a pid that has no mark and whose
\* cache entry is 30 s old or older starts a new lookup
LookupsEndAndRestart ==
  /\ \A pid \in RealPids : (pid \in resolving) ~> (pid \notin resolving)
  /\ [][\A pid \in RealPids :
          (/\ DirectCall(pid)
           /\ pid \notin resolving
           /\ pid \in DOMAIN cache
           /\ now - cache[pid].timestamp >= CACHE_TTL)
            => /\ pid \in resolving'
               /\ \E k \in 1..Len(lookups') : lookups'[k].pid = pid]_vars

\* a lookup has ended and set the cache entry of pid 1, the entry has grown
\* old, and a getWorkingDir(1) has just started a new lookup
OldEntryLookedUpAgain ==
  /\ lastCall.op = "getWorkingDir"
  /\ lastCall.pid = 1
  /\ lastCall.how = "started"
  /\ 1 \in DOMAIN cache
  /\ now - cache[1].timestamp >= CACHE_TTL
  /\ 1 \in resolving


=============================================================================
